---- MODULE Spec2Model ----
(***************************************************************************)
(* Morpheus DSL: the unit algebra, the type model, the resolver and the    *)
(* type checker (src/src/analyzer), modelled as state machines.            *)
(*                                                                         *)
(*   Spec       one resolve + check run over a program (a list of          *)
(*              top-level declarations)                                    *)
(*   SpecUnits  the unit algebra applied to units built by the algebra     *)
(*   SpecTypes  the type constructors and the typesEqual / isSubtype       *)
(*              relations over constructed types                           *)
(*   SpecScopes a client calling the SymbolTable's methods                 *)
(*   SpecCompile the compile function of the compiler API                  *)
(*   SpecRetry  callClaude's retry loop (ai-mapping-synthesizer.ts)        *)
(*   SpecRuntime the runtime library's sum over an array                   *)
(***************************************************************************)
EXTENDS Integers, Sequences, FiniteSets, TLC

VARIABLES
    program,        \* AST.Program.declarations handed to resolve and check
    pc,             \* position of the resolve + check driver
    idx,            \* index of the declaration the running loop is at
    symbols,        \* SymbolTable: global Scope.symbols, name -> Symbol
    resolveErrors,  \* Resolver.errors
    units,          \* TypeChecker.units
    dimensions,     \* TypeChecker.dimensions
    errors,         \* TypeChecker.errors
    thrown,         \* exception that escaped resolve or check, or None
    checked,        \* history: per declaration, the outcome of each pass-2 check of it
    ua,             \* SpecUnits: the unit built so far
    ub,             \* SpecUnits: the other operand
    uops,           \* SpecUnits: number of operations applied so far
    ta,             \* SpecTypes: the type built so far
    tb,             \* SpecTypes: the other type
    ctors,          \* SpecTypes: number of constructors applied so far
    scopes,         \* SpecScopes: the Scope objects created so far, by identity
    globalScope,    \* SpecScopes: SymbolTable.globalScope
    currentScope,   \* SpecScopes: SymbolTable.currentScope
    call,           \* SpecScopes: the last SymbolTable method called, with its arguments
    ret,            \* SpecScopes: what that call returned or threw
    calls,          \* SpecScopes: number of calls made so far
    input,          \* SpecCompile: what the lexer and the parser return, and the options
    stages,         \* SpecCompile: history, the stages compile has run
    compiled,       \* SpecCompile: the CompileResult returned, or None
    variant,        \* SpecRetry: which of the two callClaude methods runs
    attempt,        \* SpecRetry: callClaude's loop variable
    lastError,      \* SpecRetry: callClaude's lastError, None for undefined
    waits,          \* SpecRetry: history, the delays slept so far (ms)
    outcomes,       \* SpecRetry: history, what each request met
    reply,          \* SpecRetry: what callClaude returned or threw, None while running
    array,          \* SpecRuntime: the array handed to sum
    total           \* SpecRuntime: what sum returned, None before the call

vars == <<program, pc, idx, symbols, resolveErrors, units, dimensions, errors,
          thrown, checked, ua, ub, uops, ta, tb, ctors,
          scopes, globalScope, currentScope, call, ret, calls,
          input, stages, compiled, variant, attempt, lastError, waits, outcomes, reply,
          array, total>>

runVars == <<program, pc, idx, symbols, resolveErrors, units, dimensions,
             errors, thrown, checked>>
unitVars == <<ua, ub, uops>>
typeVars == <<ta, tb, ctors>>
scopeVars == <<scopes, globalScope, currentScope, call, ret, calls>>
compileVars == <<input, stages, compiled>>
retryVars == <<variant, attempt, lastError, waits, outcomes, reply>>
sumVars == <<array, total>>
libVars == <<compileVars, retryVars, sumVars>>

None == [kind |-> "None"]

(***************************************************************************)
(* Bounds                                                                  *)
(***************************************************************************)
MaxPow == 2        \* largest exponent written in a unit expression (u^n)
MaxDecls == 3      \* longest program drawn from the declaration pool
MaxUnitOps == 3    \* SpecUnits: number of algebra operations applied
MaxCtors == 2      \* SpecTypes: number of type constructors applied
MaxCalls == 5      \* SpecScopes: number of SymbolTable calls made
MaxSteps == 2      \* longest pipeline body

(***************************************************************************)
(* JavaScript Map<string, V> with its insertion order: a sequence of       *)
(* <<key, value>> pairs with distinct keys.                                *)
(***************************************************************************)
MapHas(m, k) == \E i \in 1..Len(m) : m[i][1] = k

MapGet(m, k) == m[CHOOSE i \in 1..Len(m) : m[i][1] = k][2]

MapSet(m, k, v) ==
    IF MapHas(m, k)
    THEN [i \in 1..Len(m) |-> IF m[i][1] = k THEN <<k, v>> ELSE m[i]]
    ELSE Append(m, <<k, v>>)

MapKeys(m) == {m[i][1] : i \in 1..Len(m)}

(***************************************************************************)
(* Unit.scale is a positive real; the model keeps it as a fraction         *)
(* <<numerator, denominator>> so that *, / and Math.pow are exact.         *)
(***************************************************************************)
RECURSIVE IntPow(_, _)
IntPow(b, n) == IF n = 0 THEN 1 ELSE b * IntPow(b, n - 1)

ScaleMul(s, t) == <<s[1] * t[1], s[2] * t[2]>>
ScaleDiv(s, t) == <<s[1] * t[2], s[2] * t[1]>>
ScalePow(s, n) ==
    IF n >= 0 THEN <<IntPow(s[1], n), IntPow(s[2], n)>>
    ELSE <<IntPow(s[2], 0 - n), IntPow(s[1], 0 - n)>>

(***************************************************************************)
(* Units (types.ts, "Unit operations")                                     *)
(***************************************************************************)
createUnit(dims, scale) == [dimensions |-> dims, scale |-> scale]

UNIT_ONE == [dimensions |-> <<>>, scale |-> <<1, 1>>]

\* for (const [dim, exp] of b.dimensions)
\*   dimensions.set(dim, (dimensions.get(dim) ?? 0) + sign * exp)
RECURSIVE AddExponents(_, _, _, _)
AddExponents(dims, bdims, i, sign) ==
    IF i > Len(bdims) THEN dims
    ELSE LET dim == bdims[i][1]
             exp == bdims[i][2]
             old == IF MapHas(dims, dim) THEN MapGet(dims, dim) ELSE 0
         IN AddExponents(MapSet(dims, dim, old + sign * exp), bdims, i + 1, sign)

\* for (const [dim, exp] of dimensions) if (exp === 0) dimensions.delete(dim)
RemoveZeroExponents(dims) == SelectSeq(dims, LAMBDA e : e[2] # 0)

multiplyUnits(a, b) ==
    [dimensions |-> RemoveZeroExponents(AddExponents(a.dimensions, b.dimensions, 1, 1)),
     scale |-> ScaleMul(a.scale, b.scale)]

divideUnits(a, b) ==
    [dimensions |-> RemoveZeroExponents(AddExponents(a.dimensions, b.dimensions, 1, -1)),
     scale |-> ScaleDiv(a.scale, b.scale)]

powerUnit(unit, exponent) ==
    [dimensions |-> [i \in 1..Len(unit.dimensions) |->
                        <<unit.dimensions[i][1], unit.dimensions[i][2] * exponent>>],
     scale |-> ScalePow(unit.scale, exponent)]

\* unitsEqual with the loop over a's entries left out: sizes only
unitsEqual_SizeOnly(a, b) == Len(a.dimensions) = Len(b.dimensions)

unitsEqual(a, b) ==
    IF Len(a.dimensions) # Len(b.dimensions) THEN FALSE
    ELSE \A i \in 1..Len(a.dimensions) :
            /\ MapHas(b.dimensions, a.dimensions[i][1])
            /\ MapGet(b.dimensions, a.dimensions[i][1]) = a.dimensions[i][2]

\* canonical form of the data model: no dimension with exponent 0
Canonical(u) == \A i \in 1..Len(u.dimensions) : u.dimensions[i][2] # 0

(***************************************************************************)
(* Types (types.ts, "Type constructors")                                   *)
(***************************************************************************)
primitiveType(name) == [kind |-> "Primitive", name |-> name]
\* SchemaType.fields lives on the Schema symbol (symbols[name].fields): the
\* type object is shared by reference between the symbol and every type
\* that mentions the schema; genericArgs is always [] (resolver.ts:87)
schemaType(name) == [kind |-> "Schema", name |-> name]
enumType(name, variants) == [kind |-> "Enum", name |-> name, variants |-> variants]
arrayType(element) == [kind |-> "Array", element |-> element]
optionalType(inner) == [kind |-> "Optional", inner |-> inner]
quantityType(unit) == [kind |-> "Quantity", unit |-> unit]
tupleType(elements) == [kind |-> "Tuple", elements |-> elements]
unionType(members) == [kind |-> "Union", members |-> members]
functionType(params, returnType) ==
    [kind |-> "Function", params |-> params, returnType |-> returnType]
typeVariable(name, id) == [kind |-> "TypeVar", name |-> name, id |-> id]
NEVER_TYPE == [kind |-> "Never"]
UNKNOWN_TYPE == [kind |-> "Unknown"]

RECURSIVE typesEqual(_, _)
typesEqual(a, b) ==
    IF a.kind # b.kind THEN FALSE
    ELSE CASE a.kind = "Primitive" -> a.name = b.name
           [] a.kind = "Schema" -> a.name = b.name
           [] a.kind = "Enum" -> a.name = b.name
           [] a.kind = "Array" -> typesEqual(a.element, b.element)
           [] a.kind = "Optional" -> typesEqual(a.inner, b.inner)
           [] a.kind = "Quantity" -> unitsEqual(a.unit, b.unit)
           [] a.kind = "Tuple" ->
                IF Len(a.elements) # Len(b.elements) THEN FALSE
                ELSE \A i \in 1..Len(a.elements) :
                        typesEqual(a.elements[i], b.elements[i])
           [] a.kind = "Union" ->
                IF Len(a.members) # Len(b.members) THEN FALSE
                ELSE \A i \in 1..Len(a.members) :
                        \E j \in 1..Len(b.members) :
                            typesEqual(a.members[i], b.members[j])
           [] a.kind = "Function" ->
                IF Len(a.params) # Len(b.params) THEN FALSE
                ELSE /\ \A i \in 1..Len(a.params) :
                            typesEqual(a.params[i], b.params[i])
                     /\ typesEqual(a.returnType, b.returnType)
           [] a.kind = "TypeVar" -> a.id = b.id
           [] a.kind \in {"Never", "Unknown"} -> TRUE
           [] OTHER -> FALSE

RECURSIVE isSubtype(_, _)
\* isSubtype without the reflexivity test on entry
isSubtype_NoReflexivity(sub, sup) ==
    IF sub.kind = "Never" THEN TRUE
    ELSE IF sup.kind = "Unknown" THEN TRUE
    ELSE IF sub.kind # "Optional" /\ sup.kind = "Optional"
         THEN isSubtype(sub, sup.inner)
    ELSE IF sub.kind = "Schema" /\ sup.kind = "Schema"
         THEN sub.name = sup.name
    ELSE IF sub.kind = "Array" /\ sup.kind = "Array"
         THEN isSubtype(sub.element, sup.element)
    ELSE IF sub.kind = "Union"
         THEN \A i \in 1..Len(sub.members) : isSubtype(sub.members[i], sup)
    ELSE IF sup.kind = "Union"
         THEN \E i \in 1..Len(sup.members) : isSubtype(sub, sup.members[i])
    ELSE FALSE

\* isSubtype that also unwraps an Optional on the left
isSubtype_UnwrapsSub(sub, sup) ==
    IF typesEqual(sub, sup) THEN TRUE
    ELSE IF sub.kind = "Never" THEN TRUE
    ELSE IF sup.kind = "Unknown" THEN TRUE
    ELSE IF sub.kind # "Optional" /\ sup.kind = "Optional"
         THEN isSubtype(sub, sup.inner)
    ELSE IF sub.kind = "Optional" /\ sup.kind # "Optional"
         THEN isSubtype(sub.inner, sup)
    ELSE IF sub.kind = "Schema" /\ sup.kind = "Schema"
         THEN sub.name = sup.name
    ELSE IF sub.kind = "Array" /\ sup.kind = "Array"
         THEN isSubtype(sub.element, sup.element)
    ELSE IF sub.kind = "Union"
         THEN \A i \in 1..Len(sub.members) : isSubtype(sub.members[i], sup)
    ELSE IF sup.kind = "Union"
         THEN \E i \in 1..Len(sup.members) : isSubtype(sub, sup.members[i])
    ELSE FALSE

\* isSubtype without the rule for a Union on the right
isSubtype_NoUnionSup(sub, sup) ==
    IF typesEqual(sub, sup) THEN TRUE
    ELSE IF sub.kind = "Never" THEN TRUE
    ELSE IF sup.kind = "Unknown" THEN TRUE
    ELSE IF sub.kind # "Optional" /\ sup.kind = "Optional"
         THEN isSubtype(sub, sup.inner)
    ELSE IF sub.kind = "Schema" /\ sup.kind = "Schema"
         THEN sub.name = sup.name
    ELSE IF sub.kind = "Array" /\ sup.kind = "Array"
         THEN isSubtype(sub.element, sup.element)
    ELSE IF sub.kind = "Union"
         THEN \A i \in 1..Len(sub.members) : isSubtype(sub.members[i], sup)
    ELSE FALSE

isSubtype(sub, sup) ==
    IF typesEqual(sub, sup) THEN TRUE
    ELSE IF sub.kind = "Never" THEN TRUE
    ELSE IF sup.kind = "Unknown" THEN TRUE
    ELSE IF sub.kind # "Optional" /\ sup.kind = "Optional"
         THEN isSubtype(sub, sup.inner)
    ELSE IF sub.kind = "Schema" /\ sup.kind = "Schema"
         THEN sub.name = sup.name
    ELSE IF sub.kind = "Array" /\ sup.kind = "Array"
         THEN isSubtype(sub.element, sup.element)
    ELSE IF sub.kind = "Union"
         THEN \A i \in 1..Len(sub.members) : isSubtype(sub.members[i], sup)
    ELSE IF sup.kind = "Union"
         THEN \E i \in 1..Len(sup.members) : isSubtype(sub, sup.members[i])
    ELSE FALSE

\* Array.prototype.join over a sequence of strings
RECURSIVE Join(_, _)
Join(parts, sep) ==
    IF Len(parts) = 0 THEN ""
    ELSE IF Len(parts) = 1 THEN parts[1]
    ELSE parts[1] \o sep \o Join(Tail(parts), sep)

formatUnit(unit) ==
    IF Len(unit.dimensions) = 0 THEN "1"
    ELSE Join([i \in 1..Len(unit.dimensions) |->
                  IF unit.dimensions[i][2] = 1 THEN unit.dimensions[i][1]
                  ELSE unit.dimensions[i][1] \o "^" \o ToString(unit.dimensions[i][2])],
              "*")

RECURSIVE formatType(_)
formatType(type) ==
    CASE type.kind = "Primitive" -> type.name
      [] type.kind = "Schema" -> type.name
      [] type.kind = "Enum" -> type.name
      [] type.kind = "Array" -> "[" \o formatType(type.element) \o "]"
      [] type.kind = "Optional" -> formatType(type.inner) \o "?"
      [] type.kind = "Quantity" -> "Quantity<" \o formatUnit(type.unit) \o ">"
      [] type.kind = "Tuple" ->
            "(" \o Join([i \in 1..Len(type.elements) |-> formatType(type.elements[i])], ", ") \o ")"
      [] type.kind = "Union" ->
            Join([i \in 1..Len(type.members) |-> formatType(type.members[i])], " | ")
      [] type.kind = "Function" ->
            "(" \o Join([i \in 1..Len(type.params) |-> formatType(type.params[i])], ", ")
                \o ") -> " \o formatType(type.returnType)
      [] type.kind = "TypeVar" -> type.name
      [] type.kind = "Never" -> "Never"
      [] type.kind = "Unknown" -> "Unknown"
      [] OTHER -> "?"

(***************************************************************************)
(* Exceptions: a function that can throw returns Ok(value) or Throw(error) *)
(***************************************************************************)
Ok(v) == [ok |-> TRUE, value |-> v]
Throw(e) == [ok |-> FALSE, error |-> e]

TypeCheckError(message) == [name |-> "TypeCheckError", message |-> message]
ResolveError(message) == [name |-> "ResolveError", message |-> message]
Error(message) == [name |-> "Error", message |-> message]

(***************************************************************************)
(* Scope / SymbolTable (scope.ts).  Resolver and TypeChecker never call    *)
(* enterScope, so the current scope is the global scope throughout.        *)
(***************************************************************************)
\* Scope.define that replaces an existing binding instead of throwing
define_Overwrite(syms, name, symbol) ==
    Ok((name :> symbol) @@ [n \in DOMAIN syms \ {name} |-> syms[n]])

define(syms, name, symbol) ==
    IF name \in DOMAIN syms
    THEN Throw(Error("Symbol '" \o name \o "' is already defined in this scope"))
    ELSE Ok((name :> symbol) @@ syms)

lookup(syms, name) == IF name \in DOMAIN syms THEN syms[name] ELSE None

(***************************************************************************)
(* Scope chains (scope.ts).  A Scope is an object: scopes[s] is the Scope  *)
(* of identity s, parent the identity of its parent Scope, 0 for null.  A  *)
(* SymbolTable t is [scopes, globalScope, currentScope].                   *)
(***************************************************************************)
\* new Scope(parent)
Scope(parent) == [symbols |-> <<>>, parent |-> parent]

\* new SymbolTable()
NewSymbolTable ==
    [scopes |-> <<Scope(0)>>, globalScope |-> 1, currentScope |-> 1]

RECURSIVE Scope_lookup(_, _, _)
\* Scope.lookup that looks in the scope itself only
Scope_lookup_OwnOnly(h, s, name) ==
    IF name \in DOMAIN h[s].symbols THEN h[s].symbols[name] ELSE None

\* Scope.lookup on the Scope s of the heap h
Scope_lookup(h, s, name) ==
    IF name \in DOMAIN h[s].symbols THEN h[s].symbols[name]
    ELSE IF h[s].parent # 0 THEN Scope_lookup(h, h[s].parent, name)
    ELSE None

enterScope(t) ==
    [t EXCEPT !.scopes = Append(@, Scope(t.currentScope)),
              !.currentScope = Len(t.scopes) + 1]

\* exitScope making the global scope current whatever the parent is
exitScope_ToGlobal(t) ==
    LET parent == t.scopes[t.currentScope].parent IN
    IF parent = 0 THEN Throw(Error("Cannot exit global scope"))
    ELSE Ok([t EXCEPT !.currentScope = t.globalScope])

exitScope(t) ==
    LET parent == t.scopes[t.currentScope].parent IN
    IF parent = 0 THEN Throw(Error("Cannot exit global scope"))
    ELSE Ok([t EXCEPT !.currentScope = parent])

SymbolTable_define(t, name, symbol) ==
    LET r == define(t.scopes[t.currentScope].symbols, name, symbol) IN
    IF ~r.ok THEN r
    ELSE Ok([t EXCEPT !.scopes[t.currentScope].symbols = r.value])

SymbolTable_lookup(t, name) == Scope_lookup(t.scopes, t.currentScope, name)

(***************************************************************************)
(* TypeChecker: units (type-checker.ts)                                    *)
(***************************************************************************)
RECURSIVE evaluateUnitExpr(_, _)
evaluateUnitExpr(us, expr) ==
    CASE expr.kind = "UnitOne" -> Ok(UNIT_ONE)
      [] expr.kind = "UnitRef" ->
            IF expr.name \in DOMAIN us THEN Ok(us[expr.name])
            ELSE Throw(TypeCheckError("Unit '" \o expr.name \o "' not found"))
      [] expr.kind = "UnitMul" ->
            LET left == evaluateUnitExpr(us, expr.left) IN
            IF ~left.ok THEN left ELSE
            LET right == evaluateUnitExpr(us, expr.right) IN
            IF ~right.ok THEN right ELSE
            Ok(multiplyUnits(left.value, right.value))
      [] expr.kind = "UnitDiv" ->
            LET leftDiv == evaluateUnitExpr(us, expr.left) IN
            IF ~leftDiv.ok THEN leftDiv ELSE
            LET rightDiv == evaluateUnitExpr(us, expr.right) IN
            IF ~rightDiv.ok THEN rightDiv ELSE
            Ok(divideUnits(leftDiv.value, rightDiv.value))
      [] expr.kind = "UnitPow" ->
            LET base == evaluateUnitExpr(us, expr.base) IN
            IF ~base.ok THEN base ELSE
            Ok(powerUnit(base.value, expr.exponent))
      [] OTHER -> Throw(TypeCheckError("Invalid unit expression"))

\* the unit that processUnit stores under decl.name, or the exception
processUnit(us, decl) ==
    LET unit == IF decl.expr.kind # "None" THEN evaluateUnitExpr(us, decl.expr)
                ELSE IF decl.dimension # ""
                     THEN Ok(createUnit(<< <<decl.dimension, 1>> >>, <<1, 1>>))
                ELSE Ok(UNIT_ONE)
    IN IF ~unit.ok THEN unit ELSE Ok((decl.name :> unit.value) @@ us)

processDimension(dims, decl) == (decl.name :> decl.name) @@ dims

(***************************************************************************)
(* TypeChecker: type expressions                                           *)
(***************************************************************************)
RECURSIVE resolveTypeExpr(_, _, _)
RECURSIVE resolveTypeExprs(_, _, _, _)

\* exprs.map((e) => this.resolveTypeExpr(e)), from element i on
resolveTypeExprs(syms, us, exprs, i) ==
    IF i > Len(exprs) THEN Ok(<<>>) ELSE
    LET head == resolveTypeExpr(syms, us, exprs[i]) IN
    IF ~head.ok THEN head ELSE
    LET rest == resolveTypeExprs(syms, us, exprs, i + 1) IN
    IF ~rest.ok THEN rest ELSE Ok(<<head.value>> \o rest.value)

resolveTypeExpr(syms, us, typeExpr) ==
    CASE typeExpr.kind = "PrimitiveType" -> Ok(primitiveType(typeExpr.name))
      [] typeExpr.kind = "SchemaRef" ->
            LET symbol == lookup(syms, typeExpr.name) IN
            IF symbol = None \/ symbol.kind # "Schema"
            THEN Throw(TypeCheckError("Schema '" \o typeExpr.name \o "' not found"))
            ELSE Ok(symbol.type)
      [] typeExpr.kind = "EnumRef" ->
            LET enumSymbol == lookup(syms, typeExpr.name) IN
            IF enumSymbol = None \/ enumSymbol.kind # "Enum"
            THEN Throw(TypeCheckError("Enum '" \o typeExpr.name \o "' not found"))
            ELSE Ok(enumSymbol.type)
      [] typeExpr.kind = "ArrayType" ->
            LET element == resolveTypeExpr(syms, us, typeExpr.element) IN
            IF ~element.ok THEN element ELSE Ok(arrayType(element.value))
      [] typeExpr.kind = "OptionalType" ->
            LET inner == resolveTypeExpr(syms, us, typeExpr.inner) IN
            IF ~inner.ok THEN inner ELSE Ok(optionalType(inner.value))
      [] typeExpr.kind = "QuantityType" ->
            LET unit == evaluateUnitExpr(us, typeExpr.unit) IN
            IF ~unit.ok THEN unit ELSE Ok(quantityType(unit.value))
      [] typeExpr.kind = "TupleType" ->
            LET elements == resolveTypeExprs(syms, us, typeExpr.elements, 1) IN
            IF ~elements.ok THEN elements ELSE Ok(tupleType(elements.value))
      [] typeExpr.kind = "UnionType" ->
            LET members == resolveTypeExprs(syms, us, typeExpr.members, 1) IN
            IF ~members.ok THEN members ELSE Ok(unionType(members.value))
      [] OTHER -> Ok(UNKNOWN_TYPE)

\* current.fields of a Schema type: the field map of the schema's symbol
SchemaFields(syms, type) == syms[type.name].fields

RECURSIVE resolveTargetPath(_, _, _, _)
resolveTargetPath(syms, current, path, i) ==
    IF i > Len(path) THEN Ok(current) ELSE
    IF current.kind = "Schema"
    THEN IF ~MapHas(SchemaFields(syms, current), path[i])
         THEN Throw(TypeCheckError("Field '" \o path[i] \o "' not found in schema '"
                                   \o current.name \o "'"))
         ELSE resolveTargetPath(syms, MapGet(SchemaFields(syms, current), path[i]),
                                path, i + 1)
    ELSE Throw(TypeCheckError("Cannot access field '" \o path[i] \o "' on non-schema type"))

(***************************************************************************)
(* TypeChecker: expression inference                                       *)
(***************************************************************************)
inferLiteral(expr) ==
    CASE expr.type = "Int" -> primitiveType("Int")
      [] expr.type = "Float" -> primitiveType("Float")
      [] expr.type = "String" -> primitiveType("String")
      [] expr.type = "Bool" -> primitiveType("Bool")
      [] expr.type = "Null" -> NEVER_TYPE
      [] OTHER -> UNKNOWN_TYPE

\* the loop of inferPathExpr from segment i on, current being the type so far
RECURSIVE inferPathSegments(_, _, _, _)
inferPathSegments(syms, segments, i, current) ==
    IF i > Len(segments) THEN Ok(current) ELSE
    LET segment == segments[i] IN
    IF segment.kind = "FieldAccess" THEN
        IF current.kind = "Schema" THEN
            IF ~MapHas(SchemaFields(syms, current), segment.field)
            THEN Throw(TypeCheckError("Field '" \o segment.field \o "' not found"))
            ELSE LET fieldType == MapGet(SchemaFields(syms, current), segment.field) IN
                 inferPathSegments(syms, segments, i + 1,
                     IF segment.optional /\ fieldType.kind # "Optional"
                     THEN optionalType(fieldType) ELSE fieldType)
        ELSE Throw(TypeCheckError("Cannot access field on non-schema type"))
    ELSE IF segment.kind = "IndexAccess" THEN
        IF current.kind = "Array"
        THEN inferPathSegments(syms, segments, i + 1, current.element)
        ELSE Throw(TypeCheckError("Cannot index non-array type"))
    ELSE inferPathSegments(syms, segments, i + 1, current)

inferPathExpr(syms, expr, contextType) ==
    inferPathSegments(syms, expr.segments, 1, contextType)

\* the switch of inferBinaryExpr once both operands are inferred
inferBinaryOp(op, leftType, rightType) ==
    CASE op \in {"+", "-"} ->
            IF leftType.kind = "Quantity" /\ rightType.kind = "Quantity"
            THEN IF ~unitsEqual(leftType.unit, rightType.unit)
                 THEN Throw(TypeCheckError("Unit mismatch in addition/subtraction"))
                 ELSE Ok(leftType)
            ELSE Ok(leftType)
      [] op = "*" ->
            IF leftType.kind = "Quantity" /\ rightType.kind = "Quantity"
            THEN Ok(quantityType(multiplyUnits(leftType.unit, rightType.unit)))
            ELSE Ok(leftType)
      [] op = "/" ->
            IF leftType.kind = "Quantity" /\ rightType.kind = "Quantity"
            THEN Ok(quantityType(divideUnits(leftType.unit, rightType.unit)))
            ELSE Ok(leftType)
      [] op \in {"==", "!=", "<", ">", "<=", ">="} -> Ok(primitiveType("Bool"))
      [] op \in {"&&", "||"} -> Ok(primitiveType("Bool"))
      [] op = "??" -> Ok(rightType)
      [] OTHER -> Ok(UNKNOWN_TYPE)

inferLookupExpr(syms, expr) ==
    LET symbol == lookup(syms, expr.table) IN
    IF symbol = None \/ symbol.kind # "Lookup"
    THEN Throw(TypeCheckError("Lookup table '" \o expr.table \o "' not found"))
    ELSE Ok(symbol.valueType)

\* the switch of inferAggregateExpr once source and lambda body are inferred
\* the switch of inferAggregateExpr with filter typed like collect
inferAggregateFunc_FilterCollects(func, sourceType, bodyType) ==
    CASE func \in {"sum", "avg"} -> bodyType
      [] func \in {"collect", "filter"} -> arrayType(bodyType)
      [] func = "count" -> primitiveType("Int")
      [] OTHER -> UNKNOWN_TYPE

inferAggregateFunc(func, sourceType, bodyType) ==
    CASE func \in {"sum", "avg"} -> bodyType
      [] func = "collect" -> arrayType(bodyType)
      [] func = "filter" -> sourceType
      [] func = "count" -> primitiveType("Int")
      [] OTHER -> UNKNOWN_TYPE

\* inferIfExpr once both branches are inferred
inferIfResult(thenType, elseType) ==
    IF typesEqual(thenType, elseType) THEN thenType
    ELSE unionType(<<thenType, elseType>>)

RECURSIVE inferExpr(_, _, _)
inferExpr(syms, expr, contextType) ==
    CASE expr.kind = "Literal" -> Ok(inferLiteral(expr))
      [] expr.kind = "PathExpr" -> inferPathExpr(syms, expr, contextType)
      [] expr.kind = "BinaryExpr" ->
            LET leftType == inferExpr(syms, expr.left, contextType) IN
            IF ~leftType.ok THEN leftType ELSE
            LET rightType == inferExpr(syms, expr.right, contextType) IN
            IF ~rightType.ok THEN rightType ELSE
            inferBinaryOp(expr.op, leftType.value, rightType.value)
      [] expr.kind = "UnaryExpr" ->
            LET operandType == inferExpr(syms, expr.operand, contextType) IN
            IF ~operandType.ok THEN operandType ELSE
            CASE expr.op = "!" -> Ok(primitiveType("Bool"))
              [] expr.op = "-" -> operandType
              [] OTHER -> Ok(UNKNOWN_TYPE)
      [] expr.kind = "IfExpr" ->
            LET condType == inferExpr(syms, expr.condition, contextType) IN
            IF ~condType.ok THEN condType ELSE
            LET thenType == inferExpr(syms, expr.thenExpr, contextType) IN
            IF ~thenType.ok THEN thenType ELSE
            LET elseType == inferExpr(syms, expr.elseExpr, contextType) IN
            IF ~elseType.ok THEN elseType ELSE
            Ok(inferIfResult(thenType.value, elseType.value))
      [] expr.kind = "AggregateExpr" ->
            LET sourceType == inferExpr(syms, expr.source, contextType) IN
            IF ~sourceType.ok THEN sourceType ELSE
            IF sourceType.value.kind # "Array"
            THEN Throw(TypeCheckError("Aggregate source must be an array")) ELSE
            LET bodyType == inferExpr(syms, expr.lambda.body, sourceType.value.element) IN
            IF ~bodyType.ok THEN bodyType ELSE
            Ok(inferAggregateFunc(expr.func, sourceType.value, bodyType.value))
      [] expr.kind = "LookupExpr" -> inferLookupExpr(syms, expr)
      [] OTHER -> Ok(UNKNOWN_TYPE)

(***************************************************************************)
(* TypeChecker: declarations.  Each check* returns Ok(symbols') or the     *)
(* exception it throws; symbol updates made before a throw are kept by the *)
(* caller through SymbolsAfter.                                            *)
(***************************************************************************)
\* checkMappingRule testing assignability in the wrong direction
checkMappingRule_TargetToSource(syms, rule, sourceType, targetType) ==
    LET targetFieldType == resolveTargetPath(syms, targetType, rule.targetPath, 1) IN
    IF ~targetFieldType.ok THEN targetFieldType ELSE
    LET sourceExprType == inferExpr(syms, rule.sourceExpr, sourceType) IN
    IF ~sourceExprType.ok THEN sourceExprType ELSE
    IF ~isSubtype(targetFieldType.value, sourceExprType.value)
    THEN Throw(TypeCheckError("Type mismatch: cannot assign "
                              \o formatType(sourceExprType.value) \o " to "
                              \o formatType(targetFieldType.value)))
    ELSE Ok(TRUE)

checkMappingRule(syms, rule, sourceType, targetType) ==
    LET targetFieldType == resolveTargetPath(syms, targetType, rule.targetPath, 1) IN
    IF ~targetFieldType.ok THEN targetFieldType ELSE
    LET sourceExprType == inferExpr(syms, rule.sourceExpr, sourceType) IN
    IF ~sourceExprType.ok THEN sourceExprType ELSE
    IF ~isSubtype(sourceExprType.value, targetFieldType.value)
    THEN Throw(TypeCheckError("Type mismatch: cannot assign "
                              \o formatType(sourceExprType.value) \o " to "
                              \o formatType(targetFieldType.value)))
    ELSE Ok(TRUE)

\* the loop over the rules running on after a failure and raising the
\* last failure
RECURSIVE checkMappingRules_LastFailure(_, _, _, _, _)
checkMappingRules_LastFailure(syms, rules, i, sourceType, targetType) ==
    IF i > Len(rules) THEN Ok(TRUE) ELSE
    LET r == checkMappingRule(syms, rules[i], sourceType, targetType)
        rest == checkMappingRules_LastFailure(syms, rules, i + 1, sourceType, targetType)
    IN IF ~rest.ok THEN rest ELSE r

\* for (const rule of decl.rules) this.checkMappingRule(...), from rule i on
RECURSIVE checkMappingRules(_, _, _, _, _)
checkMappingRules(syms, rules, i, sourceType, targetType) ==
    IF i > Len(rules) THEN Ok(TRUE) ELSE
    LET r == checkMappingRule(syms, rules[i], sourceType, targetType) IN
    IF ~r.ok THEN r ELSE checkMappingRules(syms, rules, i + 1, sourceType, targetType)

\* for (const field of decl.fields) fields.set(field.name, resolveTypeExpr(field.type))
RECURSIVE resolveFields(_, _, _, _, _)
resolveFields(syms, us, fieldDecls, i, fields) ==
    IF i > Len(fieldDecls) THEN Ok(fields) ELSE
    LET type == resolveTypeExpr(syms, us, fieldDecls[i].type) IN
    IF ~type.ok THEN type ELSE
    resolveFields(syms, us, fieldDecls, i + 1, MapSet(fields, fieldDecls[i].name, type.value))

checkSchema(syms, us, decl) ==
    LET fields == resolveFields(syms, us, decl.fields, 1, <<>>)
        symbol == lookup(syms, decl.name)
    IN IF ~fields.ok THEN [symbols |-> syms, error |-> fields.error]
       ELSE IF symbol # None /\ symbol.kind = "Schema"
            THEN [symbols |-> [syms EXCEPT ![decl.name].fields = fields.value],
                  error |-> None]
            ELSE [symbols |-> syms, error |-> None]

checkLookup(syms, us, decl) ==
    LET keyType == resolveTypeExpr(syms, us, decl.keyType)
        valueType == resolveTypeExpr(syms, us, decl.valueType)
        symbol == lookup(syms, decl.name)
    IN IF ~keyType.ok THEN [symbols |-> syms, error |-> keyType.error]
       ELSE IF ~valueType.ok THEN [symbols |-> syms, error |-> valueType.error]
       ELSE IF symbol # None /\ symbol.kind = "Lookup"
            THEN [symbols |-> [syms EXCEPT ![decl.name].keyType = keyType.value,
                                           ![decl.name].valueType = valueType.value],
                  error |-> None]
            ELSE [symbols |-> syms, error |-> None]

\* checkTransform leaving the Transform symbol's placeholder types in place
checkTransform_NoSymbolUpdate(syms, us, decl) ==
    LET sourceType == resolveTypeExpr(syms, us, decl.sourceType)
        targetType == resolveTypeExpr(syms, us, decl.targetType)
    IN IF ~sourceType.ok THEN [symbols |-> syms, error |-> sourceType.error]
       ELSE IF ~targetType.ok THEN [symbols |-> syms, error |-> targetType.error]
       ELSE LET rules == checkMappingRules(syms, decl.rules, 1,
                                           sourceType.value, targetType.value)
            IN [symbols |-> syms,
                error |-> IF rules.ok THEN None ELSE rules.error]

checkTransform(syms, us, decl) ==
    LET sourceType == resolveTypeExpr(syms, us, decl.sourceType)
        targetType == resolveTypeExpr(syms, us, decl.targetType)
        symbol == lookup(syms, decl.name)
    IN IF ~sourceType.ok THEN [symbols |-> syms, error |-> sourceType.error]
       ELSE IF ~targetType.ok THEN [symbols |-> syms, error |-> targetType.error]
       ELSE LET updated == IF symbol # None /\ symbol.kind = "Transform"
                           THEN [syms EXCEPT ![decl.name].sourceType = sourceType.value,
                                             ![decl.name].targetType = targetType.value]
                           ELSE syms
                rules == checkMappingRules(updated, decl.rules, 1,
                                           sourceType.value, targetType.value)
            IN [symbols |-> updated,
                error |-> IF rules.ok THEN None ELSE rules.error]

\* the first name of `names` that is no Transform symbol, as the error thrown
RECURSIVE checkTransformNames(_, _, _)
checkTransformNames(syms, names, i) ==
    IF i > Len(names) THEN Ok(TRUE) ELSE
    LET symbol == lookup(syms, names[i]) IN
    IF symbol = None \/ symbol.kind # "Transform"
    THEN Throw(TypeCheckError("Transform '" \o names[i] \o "' not found"))
    ELSE checkTransformNames(syms, names, i + 1)

RECURSIVE checkPipelineSteps(_, _, _)
checkPipelineSteps(syms, steps, i) ==
    IF i > Len(steps) THEN Ok(TRUE) ELSE
    LET step == steps[i]
        r == IF step.kind = "TransformStep" THEN checkTransformNames(syms, <<step.name>>, 1)
             ELSE IF step.kind = "ParallelStep" THEN checkTransformNames(syms, step.transforms, 1)
             ELSE Ok(TRUE)
    IN IF ~r.ok THEN r ELSE checkPipelineSteps(syms, steps, i + 1)

checkPipeline(syms, decl) ==
    LET r == checkPipelineSteps(syms, decl.steps, 1) IN
    [symbols |-> syms, error |-> IF r.ok THEN None ELSE r.error]

checkDeclaration(syms, us, decl) ==
    CASE decl.kind = "SchemaDecl" -> checkSchema(syms, us, decl)
      [] decl.kind = "LookupDecl" -> checkLookup(syms, us, decl)
      [] decl.kind = "TransformDecl" -> checkTransform(syms, us, decl)
      [] decl.kind = "PipelineDecl" -> checkPipeline(syms, decl)
      [] OTHER -> [symbols |-> syms, error |-> None]

(***************************************************************************)
(* Resolver (resolver.ts)                                                  *)
(***************************************************************************)
\* the Symbol that register<Kind> builds for decl, or None for other kinds
NewSymbol(decl) ==
    CASE decl.kind = "SchemaDecl" ->
            [kind |-> "Schema", name |-> decl.name, type |-> schemaType(decl.name),
             fields |-> <<>>, decl |-> decl]
      [] decl.kind = "EnumDecl" ->
            [kind |-> "Enum", name |-> decl.name,
             type |-> enumType(decl.name, decl.variants), decl |-> decl]
      [] decl.kind = "DimensionDecl" ->
            [kind |-> "Dimension", name |-> decl.name, decl |-> decl]
      [] decl.kind = "UnitDecl" ->
            [kind |-> "Unit", name |-> decl.name, decl |-> decl]
      [] decl.kind = "LookupDecl" ->
            [kind |-> "Lookup", name |-> decl.name, keyType |-> UNKNOWN_TYPE,
             valueType |-> UNKNOWN_TYPE, decl |-> decl]
      [] decl.kind = "TransformDecl" ->
            [kind |-> "Transform", name |-> decl.name, sourceType |-> UNKNOWN_TYPE,
             targetType |-> UNKNOWN_TYPE, decl |-> decl]
      [] decl.kind = "PipelineDecl" ->
            [kind |-> "Pipeline", name |-> decl.name, decl |-> decl]
      [] OTHER -> None

registerDeclaration(syms, decl) ==
    IF NewSymbol(decl) = None THEN Ok(syms)
    ELSE define(syms, decl.name, NewSymbol(decl))

resolveDeclaration(syms, decl) ==
    IF decl.kind = "SchemaDecl" /\ decl.extends # ""
    THEN LET parent == lookup(syms, decl.extends) IN
         IF parent = None \/ parent.kind # "Schema"
         THEN Throw(ResolveError("Schema '" \o decl.extends \o "' not found"))
         ELSE Ok(TRUE)
    ELSE Ok(TRUE)

\* catch (e) { if (e instanceof ResolveError) this.errors.push(e); }
catchResolveError(errs, e) ==
    IF e.name = "ResolveError" THEN Append(errs, e) ELSE errs

\* the catch block of check testing for the resolver's error class
catchTypeCheckError_WrongClass(errs, e) ==
    IF e.name = "ResolveError" THEN Append(errs, e) ELSE errs

\* catch (e) { if (e instanceof TypeCheckError) this.errors.push(e); }
catchTypeCheckError(errs, e) ==
    IF e.name = "TypeCheckError" THEN Append(errs, e) ELSE errs

(***************************************************************************)
(* AST nodes (parser/ast.ts).  An absent optional string is "" and an      *)
(* absent optional node is None; both are falsy in the source's tests.     *)
(***************************************************************************)
UnitOne == [kind |-> "UnitOne"]
UnitRef(name) == [kind |-> "UnitRef", name |-> name]
UnitMul(left, right) == [kind |-> "UnitMul", left |-> left, right |-> right]
UnitDiv(left, right) == [kind |-> "UnitDiv", left |-> left, right |-> right]
UnitPow(base, exponent) == [kind |-> "UnitPow", base |-> base, exponent |-> exponent]

PrimitiveTypeExpr(name) == [kind |-> "PrimitiveType", name |-> name]
SchemaRef(name) == [kind |-> "SchemaRef", name |-> name]
OptionalTypeExpr(inner) == [kind |-> "OptionalType", inner |-> inner]
QuantityTypeExpr(unit) == [kind |-> "QuantityType", unit |-> unit]

ArrayTypeExpr(element) == [kind |-> "ArrayType", element |-> element]

FieldDecl(name, type) == [kind |-> "FieldDecl", name |-> name, type |-> type]
FieldAccess(field, optional) ==
    [kind |-> "FieldAccess", field |-> field, optional |-> optional]
PathExpr(segments) == [kind |-> "PathExpr", segments |-> segments]
BinaryExpr(op, left, right) ==
    [kind |-> "BinaryExpr", op |-> op, left |-> left, right |-> right]
IndexAccess(index) == [kind |-> "IndexAccess", index |-> index]
Literal(type, value) == [kind |-> "Literal", type |-> type, value |-> value]
LambdaExpr(param, body) == [kind |-> "LambdaExpr", param |-> param, body |-> body]
AggregateExpr(func, source, lambda) ==
    [kind |-> "AggregateExpr", func |-> func, source |-> source, lambda |-> lambda]
MappingRule(targetPath, sourceExpr) ==
    [kind |-> "MappingRule", targetPath |-> targetPath, sourceExpr |-> sourceExpr]

DimensionDecl(name) == [kind |-> "DimensionDecl", name |-> name]
UnitDecl(name, dimension, expr) ==
    [kind |-> "UnitDecl", name |-> name, dimension |-> dimension, expr |-> expr]
SchemaDecl(name, extends, fields) ==
    [kind |-> "SchemaDecl", name |-> name, extends |-> extends, fields |-> fields]
EnumDecl(name, variants) == [kind |-> "EnumDecl", name |-> name, variants |-> variants]
TransformDecl(name, sourceType, targetType, rules) ==
    [kind |-> "TransformDecl", name |-> name, sourceType |-> sourceType,
     targetType |-> targetType, rules |-> rules]
TransformStep(name) == [kind |-> "TransformStep", name |-> name]
ParallelStep(transforms) == [kind |-> "ParallelStep", transforms |-> transforms]
ConditionalStep(condition, transform) ==
    [kind |-> "ConditionalStep", condition |-> condition, transform |-> transform]
PipelineDecl(name, steps) == [kind |-> "PipelineDecl", name |-> name, steps |-> steps]

\* $.a.b with plain "." segments
Path(fields) == PathExpr([i \in 1..Len(fields) |-> FieldAccess(fields[i], FALSE)])

\* every ordering of the declarations of p
Reorderings(p) ==
    {[i \in 1..Len(p) |-> p[f[i]]] : f \in Permutations(1..Len(p))}

(***************************************************************************)
(* Programs, 1: two units, schemas A and B over them and one transform     *)
(* with the rule z <- $.x (+|-) $.y, in every declaration order.           *)
(***************************************************************************)
\* the forms a declaration of unit `name` takes; `other` is the other unit
\* and J a unit that no program declares
UnitDeclForms(name, other) ==
    {UnitDecl(name, "", None), UnitDecl(name, "Energy", None),
     UnitDecl(name, "Mass", None),
     UnitDecl(name, "", UnitRef(other)), UnitDecl(name, "", UnitRef("J")),
     UnitDecl(name, "", UnitMul(UnitRef(other), UnitRef(other)))}
    \cup {UnitDecl(name, "", UnitPow(UnitRef(other), e)) : e \in 0..MaxPow}

\* the unit expressions U of x: Quantity<U>, z: Quantity<U> and V of y: Quantity<V>
XUnitExprs == {UnitRef("kWh"), UnitMul(UnitRef("kWh"), UnitRef("kg"))}
YUnitExprs == {UnitRef("kWh"), UnitRef("kg"), UnitMul(UnitRef("kg"), UnitRef("kWh"))}

SchemaA(xUnit, yUnit) ==
    SchemaDecl("A", "", <<FieldDecl("x", QuantityTypeExpr(xUnit)),
                          FieldDecl("y", QuantityTypeExpr(yUnit))>>)
SchemaB(xUnit) == SchemaDecl("B", "", <<FieldDecl("z", QuantityTypeExpr(xUnit))>>)
SumRule(op) == MappingRule(<<"z">>, BinaryExpr(op, Path(<<"x">>), Path(<<"y">>)))
TransformT(op) == TransformDecl("T", SchemaRef("A"), SchemaRef("B"), <<SumRule(op)>>)

QuantityProgram(uDecl, vDecl, xUnit, yUnit, op) ==
    <<uDecl, vDecl, SchemaA(xUnit, yUnit), SchemaB(xUnit), TransformT(op)>>

\* spec.md, Scenario B
ScenarioB ==
    QuantityProgram(UnitDecl("kWh", "", None), UnitDecl("kg", "", None),
                    UnitRef("kWh"), UnitRef("kg"), "+")

(***************************************************************************)
(* Programs, 2: Manager / Employee and the path $.manager(.|?.)name        *)
(***************************************************************************)
ManagerPath(opt1, opt2) ==
    PathExpr(<<FieldAccess("manager", opt1), FieldAccess("name", opt2)>>)

ManagerProgram(managerType, opt1, opt2) ==
    <<SchemaDecl("Manager", "", <<FieldDecl("name", PrimitiveTypeExpr("String"))>>),
      SchemaDecl("Employee", "", <<FieldDecl("manager", managerType)>>),
      SchemaDecl("Out", "",
                 <<FieldDecl("managerName", OptionalTypeExpr(PrimitiveTypeExpr("String")))>>),
      TransformDecl("GetManager", SchemaRef("Employee"), SchemaRef("Out"),
                    <<MappingRule(<<"managerName">>, ManagerPath(opt1, opt2))>>)>>

\* spec.md, Scenario D: manager: Manager?, $.manager?.name
ScenarioD == ManagerProgram(OptionalTypeExpr(SchemaRef("Manager")), FALSE, TRUE)

(***************************************************************************)
(* Programs, 3: up to MaxDecls declarations drawn (with repetition) from a *)
(* pool with name clashes and failing declarations.                        *)
(***************************************************************************)
PersonDecl ==
    SchemaDecl("Person", "", <<FieldDecl("name", PrimitiveTypeExpr("String")),
                               FieldDecl("age", PrimitiveTypeExpr("Int"))>>)
PersonDTODecl ==
    SchemaDecl("PersonDTO", "", <<FieldDecl("fullName", PrimitiveTypeExpr("String")),
                                  FieldDecl("ageYears", PrimitiveTypeExpr("Int"))>>)
ToDTODecl ==
    TransformDecl("ToDTO", SchemaRef("Person"), SchemaRef("PersonDTO"),
                  <<MappingRule(<<"fullName">>, Path(<<"name">>)),
                    MappingRule(<<"ageYears">>, Path(<<"age">>))>>)
BadToDTODecl ==
    TransformDecl("ToDTO", SchemaRef("Person"), SchemaRef("PersonDTO"),
                  <<MappingRule(<<"ageYears">>, Path(<<"name">>)),
                    MappingRule(<<"fullName">>, Path(<<"age">>))>>)
PersonExtendsDecl ==
    SchemaDecl("Person", "Missing", <<FieldDecl("id", PrimitiveTypeExpr("Int"))>>)
PersonDTOEnumDecl == EnumDecl("PersonDTO", <<"A", "B">>)
BrokenDecl == SchemaDecl("Broken", "", <<FieldDecl("q", QuantityTypeExpr(UnitRef("J")))>>)
BadUnitDecl == UnitDecl("u", "", UnitRef("v"))
PipeDecl == PipelineDecl("Pipe", <<TransformStep("ToDTO")>>)

DeclPool ==
    {PersonDecl, PersonDTODecl, ToDTODecl, BadToDTODecl, PersonExtendsDecl,
     PersonDTOEnumDecl, BrokenDecl, BadUnitDecl, PipeDecl}

\* spec.md, Scenario A
ScenarioA == <<PersonDecl, PersonDTODecl, ToDTODecl>>

(***************************************************************************)
(* Programs, 4: SalesRecord -> SalesSummary (tutorial, "aggregate           *)
(* functions"): a transform of two rules, the second one an aggregate over *)
(* a source with a lambda body, assigned to target fields of several types *)
(***************************************************************************)
SaleItemDecl ==
    SchemaDecl("SaleItem", "", <<FieldDecl("price", PrimitiveTypeExpr("Float")),
                                 FieldDecl("quantity", PrimitiveTypeExpr("Int")),
                                 FieldDecl("name", PrimitiveTypeExpr("String"))>>)
SalesRecordDecl ==
    SchemaDecl("SalesRecord", "",
               <<FieldDecl("productId", PrimitiveTypeExpr("String")),
                 FieldDecl("sales", ArrayTypeExpr(SchemaRef("SaleItem"))),
                 FieldDecl("readings", ArrayTypeExpr(QuantityTypeExpr(UnitRef("kWh"))))>>)
SalesSummaryDecl ==
    SchemaDecl("SalesSummary", "",
               <<FieldDecl("productId", PrimitiveTypeExpr("String")),
                 FieldDecl("maxPrice", PrimitiveTypeExpr("Float")),
                 FieldDecl("itemCount", PrimitiveTypeExpr("Int")),
                 FieldDecl("names", ArrayTypeExpr(PrimitiveTypeExpr("String"))),
                 FieldDecl("items", ArrayTypeExpr(SchemaRef("SaleItem"))),
                 FieldDecl("label", OptionalTypeExpr(PrimitiveTypeExpr("String"))),
                 FieldDecl("first", SchemaRef("SaleItem")),
                 FieldDecl("energy", QuantityTypeExpr(UnitRef("kWh")))>>)

\* the first rule of the transform: well typed, ill typed (count <- $.name
\* of Scenario C: Int <- String), null into an optional, a target path that
\* does not resolve, a source path that does not resolve, and a nested
\* target path fed from an indexed source path
FirstRules ==
    {MappingRule(<<"productId">>, Path(<<"productId">>)),
     MappingRule(<<"itemCount">>, Path(<<"productId">>)),
     MappingRule(<<"label">>, Literal("Null", "null")),
     MappingRule(<<"missing">>, Path(<<"productId">>)),
     MappingRule(<<"productId">>, Path(<<"missing">>)),
     MappingRule(<<"first", "price">>,
                 PathExpr(<<FieldAccess("sales", FALSE), IndexAccess(Literal("Int", "0")),
                            FieldAccess("price", FALSE)>>))}

AggregateFuncs == {"sum", "avg", "max", "min", "count", "collect", "filter"}
\* an array of schemas, an array of quantities and a string
AggregateSources == {Path(<<"sales">>), Path(<<"readings">>), Path(<<"productId">>)}
\* lambda bodies |x| $.price, $.name, $ (the element itself),
\* $.price * $.quantity and $.missing
LambdaBodies ==
    {Path(<<"price">>), Path(<<"name">>), Path(<<>>),
     BinaryExpr("*", Path(<<"price">>), Path(<<"quantity">>)), Path(<<"missing">>)}
AggregateTargets == {"maxPrice", "itemCount", "names", "items", "label", "energy"}

AggregateRule(target, func, source, body) ==
    MappingRule(<<target>>, AggregateExpr(func, source, LambdaExpr("x", body)))

SalesToSummary(rules) ==
    TransformDecl("SalesToSummary", SchemaRef("SalesRecord"), SchemaRef("SalesSummary"),
                  rules)

SalesProgram(rules) ==
    <<UnitDecl("kWh", "Energy", None), SaleItemDecl, SalesRecordDecl, SalesSummaryDecl,
      SalesToSummary(rules)>>

(***************************************************************************)
(* Programs, 5: Person, PersonDTO, ToDTO and a pipeline of up to MaxSteps  *)
(* steps: plain, parallel { ... } and when <condition>: <transform>        *)
(***************************************************************************)
PipelineSteps ==
    {TransformStep("ToDTO"), TransformStep("Missing"), TransformStep("Person"),
     ParallelStep(<<"ToDTO", "ToDTO">>), ParallelStep(<<"ToDTO", "Missing">>),
     ConditionalStep(Literal("Bool", "true"), "ToDTO"),
     ConditionalStep(Literal("Bool", "true"), "Missing"),
     ConditionalStep(Literal("Bool", "true"), "PersonDTO")}

PipelineProgram(steps) ==
    <<PersonDecl, PersonDTODecl, ToDTODecl, PipelineDecl("Pipe", steps)>>

(***************************************************************************)
(* One resolve + check run.  St is the state of the Resolver and the       *)
(* TypeChecker; each step operator is one iteration of one of the loops.   *)
(***************************************************************************)
St == [symbols |-> symbols, resolveErrors |-> resolveErrors, units |-> units,
       dimensions |-> dimensions, errors |-> errors, thrown |-> thrown]

St0 == [symbols |-> <<>>, resolveErrors |-> <<>>, units |-> <<>>,
        dimensions |-> <<>>, errors |-> <<>>, thrown |-> None]

\* resolve, first pass: try { registerDeclaration(decl) } catch ...
RegisterStep(st, decl) ==
    LET r == registerDeclaration(st.symbols, decl) IN
    IF r.ok THEN [st EXCEPT !.symbols = r.value]
    ELSE [st EXCEPT !.resolveErrors = catchResolveError(@, r.error)]

\* resolve, second pass: try { resolveDeclaration(decl) } catch ...
ReferenceStep(st, decl) ==
    LET r == resolveDeclaration(st.symbols, decl) IN
    IF r.ok THEN st
    ELSE [st EXCEPT !.resolveErrors = catchResolveError(@, r.error)]

\* check, first pass: processDimension / processUnit, outside any try
UnitStep(st, decl) ==
    IF decl.kind = "DimensionDecl"
    THEN [st EXCEPT !.dimensions = processDimension(@, decl)]
    ELSE IF decl.kind = "UnitDecl"
    THEN LET r == processUnit(st.units, decl) IN
         IF r.ok THEN [st EXCEPT !.units = r.value]
         ELSE [st EXCEPT !.thrown = r.error]
    ELSE st

\* check, second pass: try { checkDeclaration(decl) } catch ...
DeclarationStep(st, decl) ==
    LET r == checkDeclaration(st.symbols, st.units, decl) IN
    [st EXCEPT !.symbols = r.symbols,
               !.errors = IF r.error = None THEN @ ELSE catchTypeCheckError(@, r.error)]

SetSt(st) ==
    /\ symbols' = st.symbols
    /\ resolveErrors' = st.resolveErrors
    /\ units' = st.units
    /\ dimensions' = st.dimensions
    /\ errors' = st.errors
    /\ thrown' = st.thrown

\* the SymbolTable as constructed, no method called yet
NoCalls ==
    /\ scopes = NewSymbolTable.scopes
    /\ globalScope = NewSymbolTable.globalScope
    /\ currentScope = NewSymbolTable.currentScope
    /\ call = [op |-> "new"] /\ ret = Ok(None) /\ calls = 0

\* compile not called
NoCompile == input = None /\ stages = <<>> /\ compiled = None

\* callClaude not called
NoRetry ==
    /\ variant = "synthesizer"
    /\ attempt = 0 /\ lastError = None /\ waits = <<>> /\ outcomes = <<>>
    /\ reply = None

\* sum not called
NoSum == array = <<>> /\ total = None

\* the state in which resolve(p) is entered
InitRun(p) ==
    /\ program = p
    /\ pc = "resolve.pass1"
    /\ idx = 1
    /\ symbols = <<>>
    /\ resolveErrors = <<>>
    /\ units = <<>>
    /\ dimensions = <<>>
    /\ errors = <<>>
    /\ thrown = None
    /\ checked = [i \in 1..Len(p) |-> <<>>]
    /\ ua = UNIT_ONE /\ ub = UNIT_ONE /\ uops = 0
    /\ ta = NEVER_TYPE /\ tb = NEVER_TYPE /\ ctors = 0
    /\ NoCalls
    /\ NoCompile /\ NoRetry /\ NoSum

Init ==
    \/ \E uDecl \in {UnitDecl("kWh", "", None), UnitDecl("kWh", "Energy", None)},
          vDecl \in UnitDeclForms("kg", "kWh"),
          xUnit \in XUnitExprs, yUnit \in YUnitExprs,
          op \in {"+", "-"} :
            \E p \in Reorderings(QuantityProgram(uDecl, vDecl, xUnit, yUnit, op)) :
                InitRun(p)
    \/ \E managerType \in {SchemaRef("Manager"), OptionalTypeExpr(SchemaRef("Manager"))},
          opt1 \in BOOLEAN, opt2 \in BOOLEAN :
            \E p \in Reorderings(ManagerProgram(managerType, opt1, opt2)) : InitRun(p)
    \/ \E n \in 0..MaxDecls : \E p \in [1..n -> DeclPool] : InitRun(p)
    \/ \E first \in FirstRules, target \in AggregateTargets, func \in AggregateFuncs,
          source \in AggregateSources, body \in LambdaBodies :
            InitRun(SalesProgram(<<first, AggregateRule(target, func, source, body)>>))
    \/ \E n \in 0..MaxSteps : \E steps \in [1..n -> PipelineSteps] :
            InitRun(PipelineProgram(steps))

ResolveRegister ==
    /\ pc = "resolve.pass1" /\ idx <= Len(program)
    /\ SetSt(RegisterStep(St, program[idx]))
    /\ idx' = idx + 1
    /\ UNCHANGED <<libVars, program, pc, checked, unitVars, typeVars, scopeVars>>

ResolveRegisterEnd ==
    /\ pc = "resolve.pass1" /\ idx > Len(program)
    /\ pc' = "resolve.pass2" /\ idx' = 1
    /\ UNCHANGED <<libVars, program, symbols, resolveErrors, units, dimensions, errors,
                   thrown, checked, unitVars, typeVars, scopeVars>>

ResolveReferences ==
    /\ pc = "resolve.pass2" /\ idx <= Len(program)
    /\ SetSt(ReferenceStep(St, program[idx]))
    /\ idx' = idx + 1
    /\ UNCHANGED <<libVars, program, pc, checked, unitVars, typeVars, scopeVars>>

ResolveReturn ==
    /\ pc = "resolve.pass2" /\ idx > Len(program)
    /\ pc' = "resolved"
    /\ UNCHANGED <<libVars, program, idx, symbols, resolveErrors, units, dimensions, errors,
                   thrown, checked, unitVars, typeVars, scopeVars>>

\* new TypeChecker(symbolTable).check(program) is entered
CheckCall ==
    /\ pc = "resolved"
    /\ pc' = "check.pass1" /\ idx' = 1
    /\ UNCHANGED <<libVars, program, symbols, resolveErrors, units, dimensions, errors,
                   thrown, checked, unitVars, typeVars, scopeVars>>

CheckUnits ==
    /\ pc = "check.pass1" /\ idx <= Len(program)
    /\ LET st == UnitStep(St, program[idx]) IN
        /\ SetSt(st)
        /\ IF st.thrown # None
           THEN pc' = "check.thrown" /\ idx' = idx
           ELSE pc' = pc /\ idx' = idx + 1
    /\ UNCHANGED <<libVars, program, checked, unitVars, typeVars, scopeVars>>

CheckUnitsEnd ==
    /\ pc = "check.pass1" /\ idx > Len(program)
    /\ pc' = "check.pass2" /\ idx' = 1
    /\ UNCHANGED <<libVars, program, symbols, resolveErrors, units, dimensions, errors,
                   thrown, checked, unitVars, typeVars, scopeVars>>

CheckDeclarations ==
    /\ pc = "check.pass2" /\ idx <= Len(program)
    /\ SetSt(DeclarationStep(St, program[idx]))
    /\ checked' = [checked EXCEPT
                      ![idx] = Append(@, checkDeclaration(symbols, units, program[idx]).error)]
    /\ idx' = idx + 1
    /\ UNCHANGED <<libVars, program, pc, unitVars, typeVars, scopeVars>>

CheckReturn ==
    /\ pc = "check.pass2" /\ idx > Len(program)
    /\ pc' = "checked"
    /\ UNCHANGED <<libVars, program, idx, symbols, resolveErrors, units, dimensions, errors,
                   thrown, checked, unitVars, typeVars, scopeVars>>

Next ==
    \/ ResolveRegister
    \/ ResolveRegisterEnd
    \/ ResolveReferences
    \/ ResolveReturn
    \/ CheckCall
    \/ CheckUnits
    \/ CheckUnitsEnd
    \/ CheckDeclarations
    \/ CheckReturn

Spec == Init /\ [][Next]_vars

\* the whole run as a function of the program: the loops of resolve and
\* check folded over p; pass 1..4 in the order the driver runs them
PassStep(pass, st, decl) ==
    CASE pass = 1 -> RegisterStep(st, decl)
      [] pass = 2 -> ReferenceStep(st, decl)
      [] pass = 3 -> UnitStep(st, decl)
      [] pass = 4 -> DeclarationStep(st, decl)

RECURSIVE RunPass(_, _, _, _)
RunPass(pass, st, p, i) ==
    IF i > Len(p) \/ st.thrown # None THEN st
    ELSE RunPass(pass, PassStep(pass, st, p[i]), p, i + 1)

Run(p) == RunPass(4, RunPass(3, RunPass(2, RunPass(1, St0, p, 1), p, 1), p, 1), p, 1)

(***************************************************************************)
(* SpecUnits: the unit algebra applied to units the algebra built.  The    *)
(* base units are the ones processUnit and createUnit make: the identity   *)
(* and one dimension at exponent 1.                                        *)
(***************************************************************************)
BaseUnits ==
    {UNIT_ONE} \cup {createUnit(<< <<d, 1>> >>, s) :
                        d \in {"Length", "Time"}, s \in {<<1, 1>>, <<2, 1>>}}

Idle ==
    /\ program = <<>> /\ pc = "idle" /\ idx = 1
    /\ symbols = <<>> /\ resolveErrors = <<>> /\ units = <<>>
    /\ dimensions = <<>> /\ errors = <<>> /\ thrown = None /\ checked = <<>>

InitUnits ==
    /\ Idle
    /\ ua \in BaseUnits /\ ub \in BaseUnits /\ uops = 0
    /\ ta = NEVER_TYPE /\ tb = NEVER_TYPE /\ ctors = 0
    /\ NoCalls
    /\ NoCompile /\ NoRetry /\ NoSum

Multiply ==
    /\ uops < MaxUnitOps
    /\ \E b \in BaseUnits : ub' = b /\ ua' = multiplyUnits(ua, b)
    /\ uops' = uops + 1
    /\ UNCHANGED <<libVars, runVars, typeVars, scopeVars>>

Divide ==
    /\ uops < MaxUnitOps
    /\ \E b \in BaseUnits : ub' = b /\ ua' = divideUnits(ua, b)
    /\ uops' = uops + 1
    /\ UNCHANGED <<libVars, runVars, typeVars, scopeVars>>

Power ==
    /\ uops < MaxUnitOps
    /\ \E n \in -1..MaxPow : ua' = powerUnit(ua, n)
    /\ uops' = uops + 1
    /\ UNCHANGED <<libVars, runVars, ub, typeVars, scopeVars>>

NextUnits == Multiply \/ Divide \/ Power

SpecUnits == InitUnits /\ [][NextUnits]_vars

(***************************************************************************)
(* SpecTypes: types built with the type constructors, ta from tb           *)
(***************************************************************************)
AtomTypes ==
    {primitiveType("Int"), primitiveType("String"), schemaType("Person"),
     enumType("Color", <<"Red", "Green">>), quantityType(UNIT_ONE),
     quantityType(createUnit(<< <<"Length", 1>> >>, <<1, 1>>)),
     quantityType(powerUnit(createUnit(<< <<"Length", 1>> >>, <<1, 1>>), 0)),
     typeVariable("T", 0), NEVER_TYPE, UNKNOWN_TYPE}

InitTypes ==
    /\ Idle
    /\ ua = UNIT_ONE /\ ub = UNIT_ONE /\ uops = 0
    /\ ta \in AtomTypes /\ tb \in AtomTypes /\ ctors = 0
    /\ NoCalls
    /\ NoCompile /\ NoRetry /\ NoSum

MakeArray ==
    /\ ctors < MaxCtors
    /\ ta' = arrayType(ta) /\ ctors' = ctors + 1
    /\ UNCHANGED <<libVars, runVars, unitVars, tb, scopeVars>>

MakeOptional ==
    /\ ctors < MaxCtors
    /\ ta' = optionalType(ta) /\ ctors' = ctors + 1
    /\ UNCHANGED <<libVars, runVars, unitVars, tb, scopeVars>>

MakeTuple ==
    /\ ctors < MaxCtors
    /\ ta' = tupleType(<<ta, tb>>) /\ ctors' = ctors + 1
    /\ UNCHANGED <<libVars, runVars, unitVars, tb, scopeVars>>

MakeUnion ==
    /\ ctors < MaxCtors
    /\ ta' = unionType(<<ta, tb>>) /\ ctors' = ctors + 1
    /\ UNCHANGED <<libVars, runVars, unitVars, tb, scopeVars>>

MakeFunction ==
    /\ ctors < MaxCtors
    /\ ta' = functionType(<<tb>>, ta) /\ ctors' = ctors + 1
    /\ UNCHANGED <<libVars, runVars, unitVars, tb, scopeVars>>

SwapTypes ==
    /\ ta' = tb /\ tb' = ta
    /\ UNCHANGED <<libVars, runVars, unitVars, ctors, scopeVars>>

NextTypes ==
    \/ MakeArray
    \/ MakeOptional
    \/ MakeTuple
    \/ MakeUnion
    \/ MakeFunction
    \/ SwapTypes

SpecTypes == InitTypes /\ [][NextTypes]_vars

(***************************************************************************)
(* SpecScopes: a client of SymbolTable calling enterScope, exitScope,      *)
(* define and lookup in any order, with two names and, per name, two       *)
(* Variable symbols                                                        *)
(***************************************************************************)
ScopeNames == {"x", "y"}
VariableSymbol(name, type) == [kind |-> "Variable", name |-> name, type |-> type]
VariableSymbols(name) ==
    {VariableSymbol(name, primitiveType("Int")),
     VariableSymbol(name, primitiveType("String"))}

Table == [scopes |-> scopes, globalScope |-> globalScope, currentScope |-> currentScope]

SetTable(t) ==
    /\ scopes' = t.scopes
    /\ globalScope' = t.globalScope
    /\ currentScope' = t.currentScope

InitScopes ==
    /\ Idle
    /\ ua = UNIT_ONE /\ ub = UNIT_ONE /\ uops = 0
    /\ ta = NEVER_TYPE /\ tb = NEVER_TYPE /\ ctors = 0
    /\ NoCalls
    /\ NoCompile /\ NoRetry /\ NoSum

EnterScope ==
    /\ calls < MaxCalls
    /\ SetTable(enterScope(Table))
    /\ call' = [op |-> "enterScope"] /\ ret' = Ok(None)
    /\ calls' = calls + 1
    /\ UNCHANGED <<libVars, runVars, unitVars, typeVars>>

ExitScope ==
    /\ calls < MaxCalls
    /\ LET r == exitScope(Table) IN
        /\ IF r.ok THEN SetTable(r.value) /\ ret' = Ok(None)
           ELSE SetTable(Table) /\ ret' = r
    /\ call' = [op |-> "exitScope"]
    /\ calls' = calls + 1
    /\ UNCHANGED <<libVars, runVars, unitVars, typeVars>>

Define ==
    /\ calls < MaxCalls
    /\ \E name \in ScopeNames : \E symbol \in VariableSymbols(name) :
        /\ LET r == SymbolTable_define(Table, name, symbol) IN
            /\ IF r.ok THEN SetTable(r.value) /\ ret' = Ok(None)
               ELSE SetTable(Table) /\ ret' = r
        /\ call' = [op |-> "define", name |-> name, symbol |-> symbol]
    /\ calls' = calls + 1
    /\ UNCHANGED <<libVars, runVars, unitVars, typeVars>>

Lookup ==
    /\ calls < MaxCalls
    /\ \E name \in ScopeNames :
        /\ ret' = Ok(SymbolTable_lookup(Table, name))
        /\ call' = [op |-> "lookup", name |-> name]
    /\ calls' = calls + 1
    /\ UNCHANGED <<libVars, runVars, unitVars, typeVars, scopes, globalScope, currentScope>>

NextScopes ==
    \/ EnterScope
    \/ ExitScope
    \/ Define
    \/ Lookup

SpecScopes == InitScopes /\ [][NextScopes]_vars

(***************************************************************************)
(* Properties                                                              *)
(***************************************************************************)
UnitMismatch == TypeCheckError("Unit mismatch in addition/subtraction")

\* C1: for Scenario B (unit kWh, unit kg, A { x: Quantity<kWh>,
\* y: Quantity<kg> }, B { z: Quantity<kWh> }, z <- $.x + $.y), resolve and
\* then check returns exactly one TypeCheckError, the unit-mismatch error.
C1_ScenarioB_OneUnitMismatch ==
    (pc = "checked" /\ program = ScenarioB)
        => (Len(errors) = 1 /\ errors[1] = UnitMismatch)

\* two dimension mappings are the same mapping: same dimensions, same exponents
SameMapping(m1, m2) ==
    /\ MapKeys(m1) = MapKeys(m2)
    /\ \A k \in MapKeys(m1) : MapGet(m1, k) = MapGet(m2, k)

IsSchema(syms, name) == name \in DOMAIN syms /\ syms[name].kind = "Schema"

HasQuantityField(syms, schema, field) ==
    /\ IsSchema(syms, schema)
    /\ MapHas(syms[schema].fields, field)
    /\ MapGet(syms[schema].fields, field).kind = "Quantity"

FieldUnit(syms, schema, field) == MapGet(syms[schema].fields, field).unit

TestScales == {<<2, 1>>, <<1, 1000>>}

\* syms with the unit of schema.field given the scale s
Rescaled(syms, schema, field, s) ==
    [syms EXCEPT ![schema].fields =
        MapSet(@, field,
               quantityType(createUnit(FieldUnit(syms, schema, field).dimensions, s)))]

\* check is about to check transform T (z <- $.x op $.y) and the schemas
\* have x: Quantity<U>, y: Quantity<V>, z: Quantity<U>
SumRulePre ==
    /\ pc = "check.pass2" /\ idx <= Len(program)
    /\ program[idx] \in {TransformT("+"), TransformT("-")}
    /\ HasQuantityField(symbols, "A", "x")
    /\ HasQuantityField(symbols, "A", "y")
    /\ HasQuantityField(symbols, "B", "z")
    /\ FieldUnit(symbols, "B", "z") = FieldUnit(symbols, "A", "x")

SumRuleExpected ==
    IF SameMapping(FieldUnit(symbols, "A", "x").dimensions,
                   FieldUnit(symbols, "A", "y").dimensions)
    THEN None ELSE UnitMismatch

\* C2: with fieldA: Quantity<U>, fieldB: Quantity<V> and the target field
\* Quantity<U>, the rule target <- $.fieldA + $.fieldB (likewise -) checks
\* without error when V has U's dimension mapping (in particular V = U) and
\* raises the unit-mismatch TypeCheckError when the mappings differ; giving
\* either operand's unit another scale does not change the outcome.
C2_SumRuleUnits ==
    [][SumRulePre =>
         /\ checked'[idx] = <<SumRuleExpected>>
         /\ errors' = IF SumRuleExpected = None THEN errors
                      ELSE Append(errors, UnitMismatch)
         /\ \A s \in TestScales : \A f \in {"x", "y"} :
              checkDeclaration(Rescaled(symbols, "A", f, s), units, program[idx]).error
                  = SumRuleExpected]_vars

\* T was checked against resolved Quantity fields of different dimension
\* mappings and raised the unit mismatch
C2_Witness ==
    \E i \in 1..Len(program) :
        /\ program[i] = TransformT("-")
        /\ checked[i] = <<UnitMismatch>>
        /\ HasQuantityField(symbols, "A", "x")
        /\ HasQuantityField(symbols, "A", "y")
        /\ ~SameMapping(FieldUnit(symbols, "A", "x").dimensions,
                        FieldUnit(symbols, "A", "y").dimensions)

\* C3: for all units a and b, unitsEqual(divideUnits(multiplyUnits(a, b), b), a)
C3_MultiplyDivideRoundTrip ==
    unitsEqual(divideUnits(multiplyUnits(ua, ub), ub), ua)

\* C4: every unit the unit algebra produces (multiplyUnits, divideUnits,
\* powerUnit with any integer exponent, 0 included) is canonical: its
\* dimension mapping holds no dimension with exponent 0.
C4_AlgebraCanonical == Canonical(ua)

\* C5: for every constructible type t: isSubtype(t, t), isSubtype(Never, t)
\* and isSubtype(t, Unknown)
C5_SubtypeReflexiveBottomTop ==
    /\ isSubtype(ta, ta)
    /\ isSubtype(NEVER_TYPE, ta)
    /\ isSubtype(ta, UNKNOWN_TYPE)

\* a Union whose first member is itself a constructed type
C5_Witness ==
    /\ ta.kind = "Union"
    /\ ta.members[1].kind \in {"Array", "Optional", "Tuple", "Union", "Function"}

\* C6: with manager: Manager? and Manager.name: String, the path
\* $.manager?.name infers to Optional(String) and raises no error.
C6_OptionalChaining ==
    (pc = "checked" /\ program = ScenarioD) =>
        /\ inferPathExpr(symbols, ManagerPath(FALSE, TRUE), schemaType("Employee"))
               = Ok(optionalType(primitiveType("String")))
        /\ errors = <<>>

\* C7: check never throws: for every program, check on the symbol table
\* that resolve produced returns an error list.
C7_CheckNeverThrows == pc # "check.thrown" /\ thrown = None

NoErrors(st) == st.thrown = None /\ st.resolveErrors = <<>> /\ st.errors = <<>>

\* C8: if resolve followed by check reports zero errors for a program, it
\* reports zero errors for every reordering of the program's declarations.
C8_OrderIndependent ==
    (pc = "checked" /\ NoErrors(St))
        => \A q \in Reorderings(program) : NoErrors(Run(q))

\* the declarations of p whose name an earlier declaration of p has
Duplicates(p) == {j \in 1..Len(p) : \E i \in 1..(j - 1) : p[i].name = p[j].name}

\* C9: when two declarations share a name, resolve returns an error list
\* that contains a ResolveError for the duplicate.
C9_DuplicateReported ==
    pc \in {"resolved", "check.pass1", "check.pass2", "checked", "check.thrown"} =>
        \A j \in Duplicates(program) :
            \E k \in 1..Len(resolveErrors) :
                resolveErrors[k] = ResolveError("Symbol '" \o program[j].name
                                        \o "' is already defined in this scope")

\* the errors recorded in the history h from declaration i on, in order
RECURSIVE Raised(_, _)
Raised(h, i) ==
    IF i > Len(h) THEN <<>>
    ELSE SelectSeq(h[i], LAMBDA e : e # None) \o Raised(h, i + 1)

\* C10: in the declaration phase of check every declaration before the loop
\* index has been checked exactly once and none after it, whatever earlier
\* declarations raised, and the error list holds the errors the failing
\* declarations raised, in declaration order.
C10_FailureIsolation ==
    pc \in {"check.pass2", "checked"} =>
        /\ \A i \in 1..Len(program) : Len(checked[i]) = IF i < idx THEN 1 ELSE 0
        /\ errors = Raised(checked, 1)

\* check returned after a failing, a passing and another failing declaration
C10_Witness ==
    /\ pc = "checked"
    /\ Len(errors) = 2
    /\ \E i, j, k \in 1..Len(program) :
          /\ i < j /\ j < k
          /\ checked[i] # <<None>> /\ checked[j] = <<None>> /\ checked[k] # <<None>>
          /\ checked[i] # checked[k]

\* the source and target types checkTransform resolves for the transform
\* that check is about to check
RuleSourceType == resolveTypeExpr(symbols, units, program[idx].sourceType)
RuleTargetType == resolveTypeExpr(symbols, units, program[idx].targetType)
TransformPre ==
    /\ pc = "check.pass2" /\ idx <= Len(program)
    /\ program[idx].kind = "TransformDecl"
    /\ RuleSourceType.ok /\ RuleTargetType.ok

RuleTargetFieldType(j) ==
    resolveTargetPath(symbols, RuleTargetType.value, program[idx].rules[j].targetPath, 1)
RuleSourceExprType(j) ==
    inferExpr(symbols, program[idx].rules[j].sourceExpr, RuleSourceType.value)
RuleResolves(j) == RuleTargetFieldType(j).ok /\ RuleSourceExprType(j).ok

TypeMismatch(sourceExprType, targetFieldType) ==
    TypeCheckError("Type mismatch: cannot assign " \o formatType(sourceExprType)
                   \o " to " \o formatType(targetFieldType))

RulePasses(j) ==
    checkMappingRule(symbols, program[idx].rules[j],
                     RuleSourceType.value, RuleTargetType.value).ok

\* check reaches rule j: no earlier rule of the transform raised
RuleReached(j) == \A k \in 1..(j - 1) : RulePasses(k)

\* this step of check reports the type mismatch of rule j
MismatchReported(j) ==
    /\ RuleReached(j) /\ ~RulePasses(j)
    /\ checked'[idx] = <<TypeMismatch(RuleSourceExprType(j).value,
                                      RuleTargetFieldType(j).value)>>
    /\ errors' = Append(errors, TypeMismatch(RuleSourceExprType(j).value,
                                             RuleTargetFieldType(j).value))

\* C11 (as stated): for every mapping rule whose target path and source
\* expression both resolve without error, check reports a type-mismatch
\* TypeCheckError for that rule exactly when
\* isSubtype(sourceExprType, targetFieldType) is false, the message holding
\* formatType of both types.
C11_EveryRuleReported ==
    [][TransformPre =>
         \A j \in 1..Len(program[idx].rules) :
            RuleResolves(j) =>
                (MismatchReported(j) <=>
                    ~isSubtype(RuleSourceExprType(j).value, RuleTargetFieldType(j).value))]_vars

\* C11 (amended): the same for every mapping rule that check reaches, that
\* is, when every earlier rule of the same transform checked without error;
\* a rule behind a failing rule is not checked and nothing is reported for it.
C11_ReachedRuleReported ==
    [][TransformPre =>
         \A j \in 1..Len(program[idx].rules) :
            /\ (RuleReached(j) /\ RuleResolves(j)) =>
                    (MismatchReported(j) <=>
                        ~isSubtype(RuleSourceExprType(j).value,
                                   RuleTargetFieldType(j).value))
            /\ ~RuleReached(j) => ~MismatchReported(j)]_vars

\* the first rule of a transform passed and check reported the mismatch of
\* its second rule, names <- collect($.sales, |x| $.price)
C11_Witness ==
    /\ pc = "checked"
    /\ Len(program) = 5
    /\ program[5].kind = "TransformDecl"
    /\ program[5].rules[1] = MappingRule(<<"productId">>, Path(<<"productId">>))
    /\ errors = <<TypeCheckError("Type mismatch: cannot assign [Float] to [String]")>>

\* C12: for Scenario A (Person { name: String, age: Int }, PersonDTO
\* { fullName: String, ageYears: Int }, transform Person -> PersonDTO with
\* fullName <- $.name and ageYears <- $.age) resolve returns no errors, check
\* returns an empty error list and the Transform symbol then carries the
\* two resolved Schema types.
C12_ScenarioA ==
    (pc = "checked" /\ program = ScenarioA) =>
        /\ resolveErrors = <<>> /\ errors = <<>> /\ thrown = None
        /\ symbols["ToDTO"].kind = "Transform"
        /\ symbols["ToDTO"].sourceType = symbols["Person"].type
        /\ symbols["ToDTO"].targetType = symbols["PersonDTO"].type
        /\ symbols["ToDTO"].sourceType = schemaType("Person")
        /\ symbols["ToDTO"].targetType = schemaType("PersonDTO")
        /\ symbols["Person"].fields =
               << <<"name", primitiveType("String")>>, <<"age", primitiveType("Int")>> >>
        /\ symbols["PersonDTO"].fields =
               << <<"fullName", primitiveType("String")>>,
                  <<"ageYears", primitiveType("Int")>> >>

\* resolve and check of Scenario A have returned
C12_Witness == pc = "checked" /\ program = ScenarioA /\ errors = <<>>

AggregateSourceError == TypeCheckError("Aggregate source must be an array")

\* rule j of the transform that check is about to check assigns an
\* aggregate whose source expression infers without error
AggregateRulePre(j) ==
    /\ program[idx].rules[j].sourceExpr.kind = "AggregateExpr"
    /\ inferExpr(symbols, program[idx].rules[j].sourceExpr.source, RuleSourceType.value).ok

AggregateSourceType(j) ==
    inferExpr(symbols, program[idx].rules[j].sourceExpr.source, RuleSourceType.value).value

\* the lambda body of rule j inferred with the element type E as its context
AggregateBodyType(j) ==
    inferExpr(symbols, program[idx].rules[j].sourceExpr.lambda.body,
              AggregateSourceType(j).element)

\* C13: for an aggregate over a source of type Array(E) with lambda body b,
\* b is inferred with E as its context and the result is b's type for sum
\* and avg, Array(bodyType) for collect, the source's array type for filter
\* and Int for count; when the source does not infer to an Array the rule
\* fails with the 'Aggregate source must be an array' error.
C13_AggregateTypes ==
    TransformPre =>
        \A j \in 1..Len(program[idx].rules) :
            AggregateRulePre(j) =>
                LET agg == program[idx].rules[j].sourceExpr
                    result == RuleSourceExprType(j)
                IN IF AggregateSourceType(j).kind = "Array"
                   THEN AggregateBodyType(j).ok =>
                        /\ agg.func \in {"sum", "avg"} => result = AggregateBodyType(j)
                        /\ agg.func = "collect" =>
                                result = Ok(arrayType(AggregateBodyType(j).value))
                        /\ agg.func = "filter" => result = Ok(AggregateSourceType(j))
                        /\ agg.func = "count" => result = Ok(primitiveType("Int"))
                        /\ (agg.func = "collect" /\ agg.source = Path(<<"sales">>)
                                /\ agg.lambda.body = Path(<<"name">>))
                              => result = Ok(arrayType(primitiveType("String")))
                        /\ (agg.func = "sum" /\ agg.source = Path(<<"readings">>)
                                /\ agg.lambda.body = Path(<<>>))
                              => result = Ok(quantityType(units["kWh"]))
                   ELSE /\ result = Throw(AggregateSourceError)
                        /\ RuleTargetFieldType(j).ok =>
                              checkMappingRule(symbols, program[idx].rules[j],
                                               RuleSourceType.value, RuleTargetType.value)
                                  = Throw(AggregateSourceError)

\* check took names <- filter($.sales, |x| $.name) for a type mismatch
\* between the source's array type and [String]
C13_Witness ==
    /\ pc = "checked" /\ Len(program) = 5
    /\ program[5].kind = "TransformDecl" /\ Len(program[5].rules) = 2
    /\ program[5].rules[2] = AggregateRule("names", "filter", Path(<<"sales">>),
                                           Path(<<"name">>))
    /\ errors = <<TypeCheckError("Type mismatch: cannot assign [SaleItem] to [String]")>>

\* C14: a rule f <- max(src, lambda) or f <- min(src, lambda), src an array,
\* the lambda body of type T and the target field f declared with type T
\* (maxPrice: Float <- max($.sales, item.price)), type-checks without error.
C14_MaxMinTypeCheck ==
    (TransformPre /\ Len(program[idx].rules) = 2 /\ RulePasses(1)
        /\ RuleResolves(2) /\ AggregateRulePre(2)
        /\ program[idx].rules[2].sourceExpr.func \in {"max", "min"}
        /\ AggregateSourceType(2).kind = "Array"
        /\ AggregateBodyType(2).ok
        /\ typesEqual(AggregateBodyType(2).value, RuleTargetFieldType(2).value))
    => RulePasses(2)

\* the scopes from s up to the root, innermost first
RECURSIVE ScopeChain(_, _)
ScopeChain(h, s) ==
    IF h[s].parent = 0 THEN <<s>> ELSE <<s>> \o ScopeChain(h, h[s].parent)

Binds(h, s, name) == name \in DOMAIN h[s].symbols

\* C15: define(name, symbol) fails exactly when name is already defined in
\* the current scope; defining a name that exists only in an enclosing
\* scope succeeds; a failed define leaves the existing binding of name and
\* every other binding unchanged.
C15_Define ==
    [][call'.op = "define" =>
         /\ ret'.ok <=> ~Binds(scopes, currentScope, call'.name)
         /\ ret'.ok =>
               /\ currentScope' = currentScope /\ Len(scopes') = Len(scopes)
               /\ scopes'[currentScope].symbols[call'.name] = call'.symbol
               /\ \A s \in 1..Len(scopes) : \A n \in ScopeNames :
                     (s # currentScope \/ n # call'.name) =>
                        /\ Binds(scopes', s, n) <=> Binds(scopes, s, n)
                        /\ Binds(scopes, s, n) =>
                              scopes'[s].symbols[n] = scopes[s].symbols[n]
         /\ ~ret'.ok =>
               /\ ret'.error = Error("Symbol '" \o call'.name
                                     \o "' is already defined in this scope")
               /\ scopes' = scopes /\ currentScope' = currentScope
               /\ globalScope' = globalScope]_vars

\* a define has succeeded in a nested scope for a name that an enclosing
\* scope binds to another symbol
C15_Witness ==
    /\ call.op = "define" /\ ret.ok
    /\ \E i \in 2..Len(ScopeChain(scopes, currentScope)) :
          LET s == ScopeChain(scopes, currentScope)[i] IN
          /\ Binds(scopes, s, call.name)
          /\ scopes[s].symbols[call.name] # call.symbol

\* the symbol of name in the innermost scope of the chain that binds it
InnermostBinding(h, s, name) ==
    LET chain == ScopeChain(h, s)
        binders == {i \in 1..Len(chain) : Binds(h, chain[i], name)}
    IN IF binders = {} THEN None
       ELSE h[chain[CHOOSE i \in binders : \A k \in binders : i <= k]].symbols[name]

\* C16: after any sequence of enterScope, exitScope and define, lookup(name)
\* returns the symbol bound to name in the innermost scope that defines it
\* on the chain from the current scope up to the global scope, and returns
\* null without an exception when no scope on the chain defines it; symbols
\* defined in a scope that has been exited are not returned.
C16_Lookup ==
    call.op = "lookup" =>
        /\ ret = Ok(InnermostBinding(scopes, currentScope, call.name))
        /\ ret.value # None =>
              \E i \in 1..Len(ScopeChain(scopes, currentScope)) :
                  LET s == ScopeChain(scopes, currentScope)[i] IN
                  Binds(scopes, s, call.name) /\ scopes[s].symbols[call.name] = ret.value

\* lookup returned a binding of the chain while a scope that has been
\* exited binds the name to another symbol
C16_Witness ==
    /\ call.op = "lookup" /\ ret.value # None
    /\ \E s \in 1..Len(scopes) :
          /\ \A i \in 1..Len(ScopeChain(scopes, currentScope)) :
                ScopeChain(scopes, currentScope)[i] # s
          /\ Binds(scopes, s, call.name)
          /\ scopes[s].symbols[call.name] # ret.value

ChainEndsAtGlobal ==
    LET chain == ScopeChain(scopes, currentScope) IN
    /\ chain[Len(chain)] = globalScope
    /\ scopes[globalScope].parent = 0

\* C17: the global scope is never popped: the current scope's parent chain
\* always ends at the global scope; exitScope called while the current
\* scope is the global scope throws and leaves the current scope unchanged;
\* otherwise exitScope makes the parent of the current scope current.
C17_GlobalNeverPopped ==
    /\ []ChainEndsAtGlobal
    /\ [][call'.op = "exitScope" =>
            IF currentScope = globalScope
            THEN /\ ret' = Throw(Error("Cannot exit global scope"))
                 /\ currentScope' = currentScope /\ scopes' = scopes
            ELSE /\ ret'.ok
                 /\ currentScope' = scopes[currentScope].parent
                 /\ scopes' = scopes]_vars

\* exitScope has thrown at the global scope after scopes had been entered
\* and exited
C17_Witness ==
    /\ call.op = "exitScope" /\ ~ret.ok
    /\ currentScope = globalScope
    /\ Len(scopes) > 2

\* Unknown, or a Union that has Unknown among its members, directly or
\* through nested Unions
RECURSIVE HasUnknownMember(_)
HasUnknownMember(t) ==
    \/ t.kind = "Unknown"
    \/ /\ t.kind = "Union"
       /\ \E i \in 1..Len(t.members) : HasUnknownMember(t.members[i])

\* C18 (as stated): for every non-Optional type T, isSubtype(T, Optional(T))
\* is true and isSubtype(Optional(T), T) is false.
C18_OptionalSubtype ==
    \A T \in {ta, tb} :
        T.kind # "Optional" =>
            /\ isSubtype(T, optionalType(T))
            /\ ~isSubtype(optionalType(T), T)

\* C18 (amended): for every non-Optional type T, isSubtype(T, Optional(T))
\* is true, and isSubtype(Optional(T), T) is false unless T is Unknown or a
\* Union with Unknown among its members, which accept every type.
C18_OptionalSubtypeBelowUnknown ==
    \A T \in {ta, tb} :
        T.kind # "Optional" =>
            /\ isSubtype(T, optionalType(T))
            /\ isSubtype(optionalType(T), T) <=> HasUnknownMember(T)

\* T is a Union without Unknown whose first member is an Optional
C18_Witness ==
    /\ ta.kind = "Union" /\ ~HasUnknownMember(ta)
    /\ ta.members[1].kind = "Optional"
    /\ ~isSubtype(optionalType(ta), ta)

\* the types X that the Union ta is compared with
ComparedTypes ==
    {ta, tb, optionalType(tb)} \cup AtomTypes \cup {optionalType(a) : a \in AtomTypes}

\* C19: for every Union type U and every type X, isSubtype(U, X) is true
\* if and only if isSubtype(m, X) is true for every member m of U,
\* including when X is an Optional type.
C19_UnionSub ==
    ta.kind = "Union" =>
        \A X \in ComparedTypes :
            isSubtype(ta, X) <=>
                \A i \in 1..Len(ta.members) : isSubtype(ta.members[i], X)

\* C20 (as stated): for every type X and every Union type U,
\* isSubtype(X, U) is true if and only if isSubtype(X, m) is true for at
\* least one member m of U, including when X is itself a Union.
C20_UnionSup ==
    ta.kind = "Union" =>
        \A X \in ComparedTypes :
            isSubtype(X, ta) <=>
                \E i \in 1..Len(ta.members) : isSubtype(X, ta.members[i])

\* C20 (amended): for every type X that is not itself a Union and every
\* Union type U, isSubtype(X, U) is true if and only if isSubtype(X, m) is
\* true for at least one member m of U; when X is itself a Union,
\* isSubtype(X, U) is true if and only if X equals U (typesEqual) or every
\* member of X is a subtype of U.
C20_UnionSupOfNonUnion ==
    ta.kind = "Union" =>
        \A X \in ComparedTypes :
            IF X.kind # "Union"
            THEN isSubtype(X, ta) <=>
                    \E i \in 1..Len(ta.members) : isSubtype(X, ta.members[i])
            ELSE isSubtype(X, ta) <=>
                    \/ typesEqual(X, ta)
                    \/ \A i \in 1..Len(X.members) : isSubtype(X.members[i], ta)

\* an Array is a subtype of a Union through the Union's second member only
C20_Witness ==
    /\ ta.kind = "Union" /\ tb.kind = "Array"
    /\ isSubtype(tb, ta)
    /\ ~isSubtype(tb, ta.members[1])
    /\ isSubtype(tb, ta.members[2])

(***************************************************************************)
(* Equality and subtyping as relations (SpecTypes)                         *)
(***************************************************************************)
\* the types typesEqual and isSubtype are applied to: ta, tb and the
\* Unions "x | y" of two of them
PairUnions == {unionType(<<x, y>>) : x, y \in {ta, tb}}

RelatedTypes == {ta, tb} \cup PairUnions

\* C21: typesEqual on two Union types compares them as sets: it is true if
\* and only if every member of the first has a typesEqual member in the
\* second and every member of the second has a typesEqual member in the
\* first; consequently typesEqual(a, b) = typesEqual(b, a) for all types.
C21_UnionEqualAsSets ==
    \A a, b \in RelatedTypes :
        /\ (a.kind = "Union" /\ b.kind = "Union") =>
              (typesEqual(a, b) <=>
                  /\ \A i \in 1..Len(a.members) : \E j \in 1..Len(b.members) :
                        typesEqual(a.members[i], b.members[j])
                  /\ \A j \in 1..Len(b.members) : \E i \in 1..Len(a.members) :
                        typesEqual(b.members[j], a.members[i]))
        /\ typesEqual(a, b) = typesEqual(b, a)

\* the types a, b, c of a subtyping chain: ta, tb, "ta?", "tb?" and the
\* Unions of ta and tb
ChainTypes == RelatedTypes \cup {optionalType(ta), optionalType(tb)}

\* C22: isSubtype is a partial order up to typesEqual; in particular it is
\* transitive: for all types a, b, c, isSubtype(a, b) and isSubtype(b, c)
\* imply isSubtype(a, c).
C22_Transitive ==
    \A a, b, c \in ChainTypes :
        (isSubtype(a, b) /\ isSubtype(b, c)) => isSubtype(a, c)

(***************************************************************************)
(* Symbol lifecycle (Spec)                                                 *)
(***************************************************************************)
\* checkDeclaration(decl) reaches the assignment to the type fields of the
\* symbol decl.name: fields (Schema), keyType and valueType (Lookup),
\* sourceType and targetType (Transform)
Assigns(syms, us, decl) ==
    LET symbol == lookup(syms, decl.name) IN
    CASE decl.kind = "SchemaDecl" ->
            /\ resolveFields(syms, us, decl.fields, 1, <<>>).ok
            /\ symbol # None /\ symbol.kind = "Schema"
      [] decl.kind = "LookupDecl" ->
            /\ resolveTypeExpr(syms, us, decl.keyType).ok
            /\ resolveTypeExpr(syms, us, decl.valueType).ok
            /\ symbol # None /\ symbol.kind = "Lookup"
      [] decl.kind = "TransformDecl" ->
            /\ resolveTypeExpr(syms, us, decl.sourceType).ok
            /\ resolveTypeExpr(syms, us, decl.targetType).ok
            /\ symbol # None /\ symbol.kind = "Transform"
      [] OTHER -> FALSE

\* the declarations whose check assigned the type fields of symbol `name`
\* in the finished run (symbol kinds and units are fixed during pass 2)
Assignments(name) ==
    {i \in 1..Len(program) :
        program[i].name = name /\ Assigns(symbols, units, program[i])}

\* C23: in one resolve + check run every Schema, Lookup and Transform
\* symbol has its type fields assigned by the type checker exactly once,
\* for every program, including programs in which two declarations share a
\* name.
C23_AssignedExactlyOnce ==
    pc = "checked" =>
        \A name \in DOMAIN symbols :
            symbols[name].kind \in {"Schema", "Lookup", "Transform"} =>
                Cardinality(Assignments(name)) = 1

(***************************************************************************)
(* Pipelines (Spec)                                                        *)
(***************************************************************************)
\* the transform names a pipeline step refers to
StepNames(step) ==
    CASE step.kind = "TransformStep" -> <<step.name>>
      [] step.kind = "ParallelStep" -> step.transforms
      [] step.kind = "ConditionalStep" -> <<step.transform>>

\* name resolves to a Transform symbol
IsTransform(name) ==
    lookup(symbols, name) # None /\ lookup(symbols, name).kind = "Transform"

\* some step of the pipeline names something that is no Transform symbol
NamesNonTransform(decl) ==
    \E s \in 1..Len(decl.steps) :
        \E k \in 1..Len(StepNames(decl.steps[s])) :
            ~IsTransform(StepNames(decl.steps[s])[k])

\* C24: for every pipeline declaration, check reports a TypeCheckError for
\* it if and only if some step of the pipeline (a plain transform step, a
\* name inside a parallel step, or the transform of a conditional step)
\* names something that does not resolve to a Transform symbol.
C24_PipelineError ==
    \A i \in 1..Len(program) :
        (program[i].kind = "PipelineDecl" /\ Len(checked[i]) = 1) =>
            ((checked[i][1] # None /\ checked[i][1].name = "TypeCheckError")
                <=> NamesNonTransform(program[i]))

(***************************************************************************)
(* SpecCompile: compile(source, filename, options) of the compiler API.    *)
(* The lexer's and the parser's results are inputs; resolve and check are  *)
(* the loops of Spec, run by its actions.                                  *)
(***************************************************************************)
LexError == [message |-> "Unexpected character",
             span |-> [file |-> "<input>", start |-> [line |-> 1, column |-> 1]]]
ParseError == [message |-> "Expected declaration",
               span |-> [file |-> "<input>", start |-> [line |-> 2, column |-> 1]]]

\* lexErrors.map / parseErrors.map
SpanErrors(errs) ==
    [i \in 1..Len(errs) |->
        [message |-> errs[i].message, file |-> errs[i].span.file,
         line |-> errs[i].span.start.line, column |-> errs[i].span.start.column]]

\* resolveErrors.map / typeErrors.map
MessageErrors(errs) == [i \in 1..Len(errs) |-> [message |-> errs[i].message]]

\* the test "xErrors.length > 0" passing for every error list
hasErrors_Never(errs) == FALSE

\* xErrors.length > 0
hasErrors(errs) == Len(errs) > 0

CompileResult(success, ast, symbolTable, mir, errs) ==
    [success |-> success, ast |-> ast, symbolTable |-> symbolTable, mir |-> mir,
     errors |-> errs]

\* IRGenerator.generate: one MIR entry per declared name and kind
generate(ast) ==
    [schemas |-> {ast[i].name : i \in {j \in 1..Len(ast) : ast[j].kind = "SchemaDecl"}},
     enums |-> {ast[i].name : i \in {j \in 1..Len(ast) : ast[j].kind = "EnumDecl"}},
     units |-> {ast[i].name : i \in {j \in 1..Len(ast) : ast[j].kind = "UnitDecl"}},
     transforms |-> {ast[i].name : i \in {j \in 1..Len(ast) : ast[j].kind = "TransformDecl"}},
     pipelines |-> {ast[i].name : i \in {j \in 1..Len(ast) : ast[j].kind = "PipelineDecl"}}]

MaxSource == 2     \* declarations in a compiled source

InitCompile ==
    /\ program = <<>> /\ pc = "compile.lex" /\ idx = 1
    /\ symbols = <<>> /\ resolveErrors = <<>> /\ units = <<>>
    /\ dimensions = <<>> /\ errors = <<>> /\ thrown = None /\ checked = <<>>
    /\ ua = UNIT_ONE /\ ub = UNIT_ONE /\ uops = 0
    /\ ta = NEVER_TYPE /\ tb = NEVER_TYPE /\ ctors = 0
    /\ NoCalls /\ NoRetry /\ NoSum
    /\ \E lexErrors \in {<<>>, <<LexError>>, <<LexError, LexError>>},
          parseErrors \in {<<>>, <<ParseError>>},
          checkOnly \in BOOLEAN :
        \E n \in 0..MaxSource : \E ast \in [1..n -> DeclPool] :
            input = [lexErrors |-> lexErrors, parseErrors |-> parseErrors,
                     ast |-> ast, checkOnly |-> checkOnly]
    /\ stages = <<>> /\ compiled = None

\* lexer.tokenize()
CompileLex ==
    /\ pc = "compile.lex"
    /\ stages' = Append(stages, "lex")
    /\ IF hasErrors(input.lexErrors)
       THEN /\ compiled' = CompileResult(FALSE, None, None, None,
                                         SpanErrors(input.lexErrors))
            /\ pc' = "compile.returned"
       ELSE compiled' = compiled /\ pc' = "compile.parse"
    /\ UNCHANGED <<program, idx, symbols, resolveErrors, units, dimensions, errors,
                   thrown, checked, unitVars, typeVars, scopeVars, input, retryVars,
                   sumVars>>

\* parser.parse()
CompileParse ==
    /\ pc = "compile.parse"
    /\ stages' = Append(stages, "parse")
    /\ program' = input.ast
    /\ checked' = [i \in 1..Len(input.ast) |-> <<>>]
    /\ IF hasErrors(input.parseErrors)
       THEN /\ compiled' = CompileResult(FALSE, input.ast, None, None,
                                         SpanErrors(input.parseErrors))
            /\ pc' = "compile.returned"
       ELSE compiled' = compiled /\ pc' = "compile.resolve"
    /\ UNCHANGED <<idx, symbols, resolveErrors, units, dimensions, errors,
                   thrown, unitVars, typeVars, scopeVars, input, retryVars,
                   sumVars>>

\* new Resolver().resolve(ast) is entered; its loops are the actions of Spec
CompileResolve ==
    /\ pc = "compile.resolve"
    /\ stages' = Append(stages, "resolve")
    /\ pc' = "resolve.pass1" /\ idx' = 1
    /\ UNCHANGED <<program, symbols, resolveErrors, units, dimensions, errors,
                   thrown, checked, unitVars, typeVars, scopeVars, input, compiled,
                   retryVars, sumVars>>

\* resolve returned: return its errors, or enter
\* new TypeChecker(symbolTable).check(ast)
CompileCheck ==
    /\ pc = "resolved"
    /\ IF hasErrors(resolveErrors)
       THEN /\ compiled' = CompileResult(FALSE, program, symbols, None,
                                         MessageErrors(resolveErrors))
            /\ pc' = "compile.returned" /\ idx' = idx
            /\ stages' = stages
       ELSE /\ compiled' = compiled
            /\ pc' = "check.pass1" /\ idx' = 1
            /\ stages' = Append(stages, "check")
    /\ UNCHANGED <<program, symbols, resolveErrors, units, dimensions, errors,
                   thrown, checked, unitVars, typeVars, scopeVars, input,
                   retryVars, sumVars>>

\* check returned: return its errors, or the check-only result, or go on
CompileChecked ==
    /\ pc = "checked"
    /\ IF hasErrors(errors)
       THEN /\ compiled' = CompileResult(FALSE, program, symbols, None,
                                         MessageErrors(errors))
            /\ pc' = "compile.returned"
       ELSE IF input.checkOnly
       THEN /\ compiled' = CompileResult(TRUE, program, symbols, None, <<>>)
            /\ pc' = "compile.returned"
       ELSE compiled' = compiled /\ pc' = "compile.irgen"
    /\ UNCHANGED <<program, idx, symbols, resolveErrors, units, dimensions, errors,
                   thrown, checked, unitVars, typeVars, scopeVars, input, stages,
                   retryVars, sumVars>>

\* new IRGenerator(symbolTable).generate(ast)
CompileGenerate ==
    /\ pc = "compile.irgen"
    /\ stages' = Append(stages, "irgen")
    /\ compiled' = CompileResult(TRUE, program, symbols, generate(program), <<>>)
    /\ pc' = "compile.returned"
    /\ UNCHANGED <<program, idx, symbols, resolveErrors, units, dimensions, errors,
                   thrown, checked, unitVars, typeVars, scopeVars, input, retryVars,
                   sumVars>>

NextCompile ==
    \/ CompileLex
    \/ CompileParse
    \/ CompileResolve
    \/ ResolveRegister
    \/ ResolveRegisterEnd
    \/ ResolveReferences
    \/ ResolveReturn
    \/ CompileCheck
    \/ CheckUnits
    \/ CheckUnitsEnd
    \/ CheckDeclarations
    \/ CheckReturn
    \/ CompileChecked
    \/ CompileGenerate

SpecCompile == InitCompile /\ [][NextCompile]_vars

StageOrder == <<"lex", "parse", "resolve", "check", "irgen">>

\* the error list stage k returned (IR generation returns none)
StageErrors(k) ==
    CASE k = 1 -> input.lexErrors
      [] k = 2 -> input.parseErrors
      [] k = 3 -> resolveErrors
      [] k = 4 -> errors
      [] OTHER -> <<>>

\* C25: compile runs the stages lex, parse, resolve, check, IR generation
\* in that order and stops at the first stage that returns a non-empty
\* error list: the result contains a mir only if every earlier stage
\* returned zero errors, and success is true exactly when the returned
\* errors list is empty.
C25_StagesInOrder ==
    /\ Len(stages) <= 5
    /\ \A k \in 1..Len(stages) :
        /\ stages[k] = StageOrder[k]
        /\ StageErrors(k) # <<>> =>
              /\ k = Len(stages)
              /\ compiled # None =>
                    Len(compiled.errors) = Len(StageErrors(k)) /\ ~compiled.success
    /\ pc = "compile.returned" <=> compiled # None
    /\ compiled # None =>
        /\ compiled.mir # None =>
              /\ stages = StageOrder
              /\ \A k \in 1..4 : StageErrors(k) = <<>>
        /\ compiled.success <=> compiled.errors = <<>>

\* compile stopped at the type checker: four stages ran, the checker's
\* errors are returned and no mir was generated
C25_Witness ==
    /\ pc = "compile.returned"
    /\ stages = <<"lex", "parse", "resolve", "check">>
    /\ errors # <<>> /\ ~input.checkOnly
    /\ compiled.errors = MessageErrors(errors)
    /\ ~compiled.success /\ compiled.mir = None

(***************************************************************************)
(* SpecRetry: AIMappingSynthesizer.callClaude, one action per iteration of *)
(* its retry loop.  What fetch does is an input: it throws or it resolves  *)
(* to a response.  An error message is its text with the set of the        *)
(* searched substrings that the text contains.                             *)
(***************************************************************************)
maxRetries == 3
baseDelay == 1000

Message(text, markers) == [text |-> text, markers |-> markers]

\* String.prototype.includes
includes(message, searchString) == searchString \in message.markers

FetchMessages ==
    {Message("read ECONNRESET", {"ECONNRESET"}),
     Message("connect ETIMEDOUT", {"ETIMEDOUT"}),
     Message("getaddrinfo ENOTFOUND api.anthropic.com", {"ENOTFOUND"}),
     Message("connect ECONNREFUSED", {"ECONNREFUSED"}),
     Message("fetch failed", {"fetch failed"}),
     Message("unable to get local issuer certificate",
             {"unable to get local issuer certificate", "certificate"}),
     Message("self signed certificate", {"self signed certificate", "certificate"}),
     Message("CERT_HAS_EXPIRED", {"CERT_"}),
     Message("socket hang up", {})}

\* what one fetch can do: throw an Error, throw another value, or resolve
FetchThrown ==
    {[kind |-> "thrown", isError |-> TRUE, message |-> m] : m \in FetchMessages}
        \cup {[kind |-> "thrown", isError |-> FALSE, message |-> Message("aborted", {})]}

FetchResponses ==
    {[kind |-> "response", status |-> st, valid |-> TRUE] :
        st \in {200, 400, 429, 500, 503, 529}}
        \cup {[kind |-> "response", status |-> 200, valid |-> FALSE]}

\* const delay = baseDelay * Math.pow(2, attempt - 1)
delay(n) == baseDelay * IntPow(2, n - 1)

isCertError(message) ==
    \/ includes(message, "unable to get local issuer certificate")
    \/ includes(message, "certificate")
    \/ includes(message, "CERT_")
    \/ includes(message, "self signed certificate")

\* isRetryable holding for every error message
isRetryable_Always(message) == TRUE

isRetryable(message) ==
    \/ includes(message, "ECONNRESET")
    \/ includes(message, "ETIMEDOUT")
    \/ includes(message, "ENOTFOUND")
    \/ includes(message, "ECONNREFUSED")
    \/ includes(message, "fetch failed")

\* response.ok
response_ok(status) == status >= 200 /\ status <= 299

\* lastError || error
OrElse(a, b) == IF a # None THEN a ELSE b

\* the catch block around fetch: "continue" or the error thrown
catchFetch(v, n, last, o) ==
    IF o.isError
    THEN IF v = "validated" /\ isCertError(o.message)
         THEN [continue |-> FALSE, lastError |-> last,
               throw |-> Error("SSL Certificate Verification Failed: " \o o.message.text)]
         ELSE LET e == Error("Failed to call Anthropic API: " \o o.message.text) IN
              IF isRetryable(o.message) /\ n < maxRetries
              THEN [continue |-> TRUE, lastError |-> e, throw |-> None]
              ELSE [continue |-> FALSE, lastError |-> e, throw |-> e]
    ELSE [continue |-> FALSE, lastError |-> last,
          throw |-> OrElse(last, [name |-> "NonError", message |-> o.message.text])]

\* the code after fetch resolved: "continue", the error thrown or the text
handleResponse(n, last, o) ==
    IF ~response_ok(o.status)
    THEN LET e == Error("Anthropic API error: " \o ToString(o.status)) IN
         IF (o.status = 529 \/ o.status >= 500) /\ n < maxRetries
         THEN [continue |-> TRUE, lastError |-> e, throw |-> None, text |-> None]
         ELSE [continue |-> FALSE, lastError |-> last, throw |-> e, text |-> None]
    ELSE IF ~o.valid
    THEN [continue |-> FALSE, lastError |-> last,
          throw |-> Error("Invalid response from Anthropic API"), text |-> None]
    ELSE [continue |-> FALSE, lastError |-> last, throw |-> None, text |-> "text"]

InitRetry ==
    /\ Idle
    /\ ua = UNIT_ONE /\ ub = UNIT_ONE /\ uops = 0
    /\ ta = NEVER_TYPE /\ tb = NEVER_TYPE /\ ctors = 0
    /\ NoCalls /\ NoCompile /\ NoSum
    /\ variant \in {"synthesizer", "validated"}
    /\ attempt = 0 /\ lastError = None /\ waits = <<>> /\ outcomes = <<>>
    /\ reply = None

\* if (attempt > 0) await setTimeout(delay)
Sleep == waits' = IF attempt > 0 THEN Append(waits, delay(attempt)) ELSE waits

\* attempt++ and the loop test; after the loop: throw lastError || new Error
Continue(last) ==
    /\ attempt' = attempt + 1
    /\ lastError' = last
    /\ reply' = IF attempt + 1 <= maxRetries THEN None
                ELSE Throw(OrElse(last,
                        Error("Failed to call Anthropic API after all retries")))

\* one iteration in which fetch throws
FetchThrows ==
    /\ reply = None /\ attempt <= maxRetries
    /\ Sleep
    /\ \E o \in FetchThrown :
        /\ outcomes' = Append(outcomes, o)
        /\ LET r == catchFetch(variant, attempt, lastError, o) IN
            IF r.continue THEN Continue(r.lastError)
            ELSE /\ reply' = Throw(r.throw)
                 /\ lastError' = r.lastError
                 /\ attempt' = attempt
    /\ UNCHANGED <<runVars, unitVars, typeVars, scopeVars, compileVars, sumVars,
                   variant>>

\* one iteration in which fetch resolves to a response
FetchResponds ==
    /\ reply = None /\ attempt <= maxRetries
    /\ Sleep
    /\ \E o \in FetchResponses :
        /\ outcomes' = Append(outcomes, o)
        /\ LET r == handleResponse(attempt, lastError, o) IN
            IF r.continue THEN Continue(r.lastError)
            ELSE /\ reply' = IF r.throw # None THEN Throw(r.throw) ELSE Ok(r.text)
                 /\ lastError' = r.lastError
                 /\ attempt' = attempt
    /\ UNCHANGED <<runVars, unitVars, typeVars, scopeVars, compileVars, sumVars,
                   variant>>

NextRetry == FetchThrows \/ FetchResponds

SpecRetry == InitRetry /\ [][NextRetry]_vars

\* a retryable network error or an HTTP status of 500 or above
RetryableFailure(o) ==
    \/ /\ o.kind = "thrown" /\ o.isError
       /\ o.message.text \in {"read ECONNRESET", "connect ETIMEDOUT",
                              "getaddrinfo ENOTFOUND api.anthropic.com",
                              "connect ECONNREFUSED", "fetch failed"}
    \/ o.kind = "response" /\ o.status >= 500

Succeeded(o) == o.kind = "response" /\ o.status = 200 /\ o.valid

\* C26: callClaude retries at most 3 times (at most 4 requests in total),
\* waiting 1 s, 2 s and 4 s before the first, second and third retry; it
\* retries only after a retryable network error or an HTTP status of 500
\* or above, fails immediately on any other error, and throws once the
\* last attempt has failed.
C26_Retry ==
    /\ Len(outcomes) <= 4
    /\ waits = SubSeq(<<1000, 2000, 4000>>, 1, Len(waits))
    /\ outcomes # <<>> => Len(waits) = Len(outcomes) - 1
    /\ \A k \in 1..Len(outcomes) :
        /\ k < Len(outcomes) => RetryableFailure(outcomes[k])
        /\ (~RetryableFailure(outcomes[k]) /\ ~Succeeded(outcomes[k])) =>
              k = Len(outcomes) /\ reply # None /\ ~reply.ok
        /\ (k = 4 /\ ~Succeeded(outcomes[k])) => reply # None /\ ~reply.ok
        /\ Succeeded(outcomes[k]) => reply = Ok("text")
    /\ reply = None => Len(outcomes) = attempt

\* three retries after a network error and two server errors, then the
\* fourth request fails too and callClaude throws
C26_Witness ==
    /\ Len(outcomes) = 4 /\ waits = <<1000, 2000, 4000>>
    /\ outcomes[1].kind = "thrown" /\ outcomes[2].kind = "response"
    /\ outcomes[3].kind = "response" /\ outcomes[3].status = 529
    /\ outcomes[4].kind = "response" /\ outcomes[4].status = 503
    /\ reply = Throw(Error("Anthropic API error: 503"))

(***************************************************************************)
(* Errors per declaration (Spec)                                           *)
(***************************************************************************)
\* what checkMappingRule raises for rule j of the transform being checked
RuleError(j) ==
    checkMappingRule(symbols, program[idx].rules[j],
                     RuleSourceType.value, RuleTargetType.value).error

\* C27: check appends at most one TypeCheckError per top-level declaration:
\* once one mapping rule of a transform (or one field of a schema) fails,
\* the remaining rules or fields of that declaration are not checked, so
\* the length of the returned error list never exceeds the number of
\* declarations in the program.
C27_OneErrorPerDeclaration ==
    /\ [](/\ Len(errors) <= Len(program)
          /\ pc = "check.pass2" => Len(errors) <= idx - 1)
    /\ [][(pc = "check.pass2" /\ idx <= Len(program)) =>
            /\ Len(errors') <= Len(errors) + 1
            /\ TransformPre =>
                \A j \in 1..Len(program[idx].rules) :
                    (RuleReached(j) /\ ~RulePasses(j)) =>
                        errors' = Append(errors, RuleError(j))]_vars

\* both rules of transform ToDTO mismatch and check returns the first
\* rule's error only
C27_Witness ==
    /\ pc = "checked"
    /\ program = <<PersonDecl, PersonDTODecl, BadToDTODecl>>
    /\ errors = <<TypeCheckError("Type mismatch: cannot assign String to Int")>>

(***************************************************************************)
(* Inferred types as supertypes (SpecTypes)                                *)
(***************************************************************************)
\* C28: the type inferred for an if-expression is a supertype of both
\* branches: for all branch types t and e, isSubtype(t, r) and
\* isSubtype(e, r) hold where r is the result of inferIfExpr.
C28_IfSupertype ==
    \A t, e \in RelatedTypes :
        /\ isSubtype(t, inferIfResult(t, e))
        /\ isSubtype(e, inferIfResult(t, e))

\* C29: the inferred type of a multiplication does not depend on operand
\* order: for all operand types a and b (Quantity or not),
\* typesEqual(infer(a * b), infer(b * a)) holds.
C29_MultiplyCommutes ==
    typesEqual(inferBinaryOp("*", ta, tb).value, inferBinaryOp("*", tb, ta).value)

(***************************************************************************)
(* SpecRuntime: the runtime library's sum(array, selector) over an array   *)
(* built item by item.  A JavaScript number is [type |-> "number", value], *)
(* a Quantity [type |-> "Quantity", value, unit]; the selector reads the   *)
(* item's field `reading`.                                                 *)
(***************************************************************************)
MaxLen == 3        \* longest array handed to sum

Number(value) == [type |-> "number", value |-> value]
Quantity(value, unit) == [type |-> "Quantity", value |-> value, unit |-> unit]

Readings ==
    {Number(n) : n \in -1..2}
        \cup {Quantity(n, u) : n \in 0..2, u \in {"kWh", "kg"}}

\* (item) => item.reading
selector(item) == item.reading

\* add(a, b) of the runtime library
add(a, b) == Quantity(a.value + b.value, a.unit)

\* array.reduce((acc, item) => acc + selector(item), acc), from item i on
RECURSIVE reduceNumbers(_, _, _)
reduceNumbers(items, i, acc) ==
    IF i > Len(items) THEN acc
    ELSE reduceNumbers(items, i + 1, Number(acc.value + selector(items[i]).value))

\* array.reduce((acc, item) => add(acc, selector(item)), acc), from item i on
RECURSIVE reduceQuantities(_, _, _)
reduceQuantities(items, i, acc) ==
    IF i > Len(items) THEN acc
    ELSE reduceQuantities(items, i + 1, add(acc, selector(items[i])))

sum(items) ==
    IF Len(items) = 0 THEN Number(0)
    ELSE LET first == selector(items[1]) IN
         IF first.type = "number" THEN reduceNumbers(items, 1, Number(0))
         ELSE reduceQuantities(items, 1, first)

InitRuntime ==
    /\ Idle
    /\ ua = UNIT_ONE /\ ub = UNIT_ONE /\ uops = 0
    /\ ta = NEVER_TYPE /\ tb = NEVER_TYPE /\ ctors = 0
    /\ NoCalls /\ NoCompile /\ NoRetry
    /\ array = <<>> /\ total = None

\* array.push(item), the items of one array being of one type
Push ==
    /\ total = None /\ Len(array) < MaxLen
    /\ \E r \in Readings :
        /\ array # <<>> => r.type = selector(array[1]).type
        /\ array' = Append(array, [reading |-> r])
    /\ UNCHANGED <<runVars, unitVars, typeVars, scopeVars, compileVars, retryVars,
                   total>>

\* sum(array, selector)
Sum ==
    /\ total = None
    /\ total' = sum(array)
    /\ UNCHANGED <<runVars, unitVars, typeVars, scopeVars, compileVars, retryVars,
                   array>>

NextRuntime == Push \/ Sum

SpecRuntime == InitRuntime /\ [][NextRuntime]_vars

\* the values selector(item) of the items from i on, added up once each
RECURSIVE SumOfValues(_, _)
SumOfValues(items, i) ==
    IF i > Len(items) THEN 0
    ELSE selector(items[i]).value + SumOfValues(items, i + 1)

\* C30: sum(array, selector) returns the sum of selector(item) taken once
\* per array element: 0 for an empty array, the arithmetic sum for number
\* selectors, and for Quantity selectors a Quantity whose value is the sum
\* of all element values carrying the first element's unit.
C30_SumOnce ==
    total # None =>
        IF array = <<>> THEN total = Number(0)
        ELSE IF selector(array[1]).type = "number"
        THEN total = Number(SumOfValues(array, 1))
        ELSE total = Quantity(SumOfValues(array, 1), selector(array[1]).unit)

====
